---- MODULE Spec2Model ----
(***************************************************************************)
(* Model of the Modbus data conversion engine of n8n-modbus-nodes:         *)
(* DataConversionUtils (nodes/Modbus/GenericFunctions.ts) and the          *)
(* auto-detect path of QuickConvert.                                        *)
(*                                                                         *)
(* JavaScript values are tagged records, so that values of different       *)
(* JavaScript types can be compared:                                       *)
(*   [t |-> "undefined"], [t |-> "null"], [t |-> "bool", b |-> ...],       *)
(*   [t |-> "int", h |-> .., l |-> ..]   the integer h * 65536 + l with    *)
(*        0 <= l < 65536 (h is negative for a negative integer): 32-bit    *)
(*        quantities do not fit TLC's 32-bit integers, so an integer is    *)
(*        kept as its quotient and remainder by 65536;                     *)
(*   [t |-> "flt", neg, man, exp]  the number (-1)^neg * man * 2^exp read  *)
(*        from an IEEE-754 single, [t |-> "inf", neg], [t |-> "nan"];      *)
(*   [t |-> "rat", n, d]  the fraction n / d in lowest terms, d > 1.       *)
(* The last four are the values whose typeof is 'number'.  Arithmetic on   *)
(* them is exact: the rounding of a double's 53-bit significand is not     *)
(* modelled.                                                               *)
(***************************************************************************)
EXTENDS Integers, Sequences, FiniteSets, TLC

VARIABLES registers, rules, results, pc, originalInput, quick,
          parameters, rulesValidation, items, itemIndex, returnData,
          validResults, thrown, convertedData, unitValue, trigger, modbus

(* The state of ModbusDataConverter.execute around a conversion pass, and  *)
(* the outcomes of the quick mode and of the unit catalog; the closure of  *)
(* ModbusTrigger.trigger and the call of Modbus.execute.                   *)
nodeVars == <<parameters, rulesValidation, items, itemIndex, returnData,
              validResults, thrown>>
deviceVars == <<trigger, modbus>>
otherVars == <<convertedData, unitValue, deviceVars>>

vars == <<registers, rules, results, pc, originalInput, quick, nodeVars, otherVars>>

----------------------------------------------------------------------------
(* Powers of two and the widths of the JavaScript bit operators.           *)

RECURSIVE Pow2(_)
Pow2(n) == IF n = 0 THEN 1 ELSE 2 * Pow2(n - 1)

Two16 == 65536
Max16 == 65535
MaxInt16 == 32767

Undefined == [t |-> "undefined"]
Null == [t |-> "null"]
NaN == [t |-> "nan"]
Bool(b) == [t |-> "bool", b |-> b]

(* The integer n (small enough for TLC) as a JavaScript number.            *)
I(n) == [t |-> "int", h |-> n \div Two16, l |-> n % Two16]

(* The integer hi * 65536 + lo, hi possibly negative.                      *)
Wide(hi, lo) == [t |-> "int", h |-> hi, l |-> lo]

IsInt(v) == v.t = "int"
IsNumber(v) == v.t \in {"int", "flt", "inf", "nan", "rat"}

(* An "int" value that fits TLC's integers, as one.                        *)
Small(v) == v.h * Two16 + v.l
FitsSmall(v) == IsInt(v) /\ v.h >= -MaxInt16 /\ v.h <= MaxInt16

----------------------------------------------------------------------------
(* 32-bit patterns: [hi, lo], two unsigned 16-bit halves.  ToInt32 is the  *)
(* conversion JavaScript applies to the operands of <<, >>, & and |.       *)

ToInt32(v) == IF v.t = "int" THEN [hi |-> v.h % Two16, lo |-> v.l]
              ELSE [hi |-> 0, lo |-> 0]

(* The result of a bit operator is the pattern read as a signed integer.   *)
Signed32(p) == Wide(IF p.hi > MaxInt16 THEN p.hi - Two16 ELSE p.hi, p.lo)

(* x >>> 0: the pattern read as an unsigned integer.                       *)
Unsigned32(p) == Wide(p.hi, p.lo)

RECURSIVE BitOr16(_, _, _)
BitOr16(a, b, n) ==
    IF n = 0 THEN 0
    ELSE (IF a % 2 = 1 \/ b % 2 = 1 THEN 1 ELSE 0)
         + 2 * BitOr16(a \div 2, b \div 2, n - 1)

RECURSIVE BitAnd16(_, _, _)
BitAnd16(a, b, n) ==
    IF n = 0 THEN 0
    ELSE (IF a % 2 = 1 /\ b % 2 = 1 THEN 1 ELSE 0)
         + 2 * BitAnd16(a \div 2, b \div 2, n - 1)

(* a | b                                                                   *)
JsOr(a, b) ==
    LET p == ToInt32(a)
        q == ToInt32(b)
    IN  Signed32([hi |-> BitOr16(p.hi, q.hi, 16), lo |-> BitOr16(p.lo, q.lo, 16)])

(* a & b                                                                   *)
JsAnd(a, b) ==
    LET p == ToInt32(a)
        q == ToInt32(b)
    IN  Signed32([hi |-> BitAnd16(p.hi, q.hi, 16), lo |-> BitAnd16(p.lo, q.lo, 16)])

(* The 32-bit pattern p shifted left by n bits, 0 <= n < 32.               *)
ShlBits(p, n) ==
    IF n >= 16
    THEN [hi |-> (p.lo * Pow2(n - 16)) % Two16, lo |-> 0]
    ELSE [hi |-> (p.hi * Pow2(n) + (p.lo * Pow2(n)) \div Two16) % Two16,
          lo |-> (p.lo * Pow2(n)) % Two16]

(* a << n: the shift count is taken modulo 32.                             *)
JsShl(a, n) == Signed32(ShlBits(ToInt32(a), n % 32))

(* a >> n: sign-propagating, the shift count taken modulo 32.              *)
JsShr(a, n) ==
    LET s == Signed32(ToInt32(a))
        k == n % 32
    IN  IF k >= 16
        THEN I(s.h \div Pow2(k - 16))
        ELSE Wide(s.h \div Pow2(k), ((s.h % Pow2(k)) * Two16 + s.l) \div Pow2(k))

(* a >>> 0                                                                 *)
JsUshr0(a) == Unsigned32(ToInt32(a))

(* Comparison and subtraction of integers.                                 *)
IntLess(a, b) == a.h < b.h \/ (a.h = b.h /\ a.l < b.l)
IntSub(a, b) ==
    Wide(a.h - b.h - (IF a.l < b.l THEN 1 ELSE 0), (a.l - b.l) % Two16)
IntAdd(a, b) ==
    Wide(a.h + b.h + (a.l + b.l) \div Two16, (a.l + b.l) % Two16)

----------------------------------------------------------------------------
(* Exact arithmetic on the numbers that are not 32-bit patterns.           *)

RECURSIVE Gcd(_, _)
Gcd(a, b) == IF b = 0 THEN a ELSE Gcd(b, a % b)

Abs(n) == IF n < 0 THEN -n ELSE n

(* The fraction n / d, d > 0, as a number.                                 *)
Frac(n, d) ==
    LET g == Gcd(Abs(n), d)
    IN  IF d \div g = 1 THEN I(n \div g)
        ELSE [t |-> "rat", n |-> n \div g, d |-> d \div g]

(* A finite number as a fraction [n, d].                                   *)
Num(v) ==
    CASE v.t = "int" -> Small(v)
      [] v.t = "rat" -> v.n
      [] v.t = "flt" -> (IF v.neg THEN -1 ELSE 1)
                        * (IF v.exp >= 0 THEN v.man * Pow2(v.exp) ELSE v.man)
Den(v) ==
    CASE v.t = "int" -> 1
      [] v.t = "rat" -> v.d
      [] v.t = "flt" -> IF v.exp >= 0 THEN 1 ELSE Pow2(-v.exp)

IsFinite(v) == v.t \in {"int", "flt", "rat"}

(* A single too large, or too small, to be written as a fraction: its      *)
(* magnitude is at least 2^31, or below 2^-6.                              *)
IsHuge(v) == v.t = "inf" \/ (v.t = "flt" /\ v.exp > 7)
IsTiny(v) == v.t = "flt" /\ v.exp < -30
IsNegative(v) ==
    CASE v.t = "int" -> v.h < 0
      [] v.t = "rat" -> v.n < 0
      [] v.t \in {"flt", "inf"} -> v.neg /\ (v.t = "inf" \/ v.man # 0)
      [] OTHER -> FALSE

NumMul(a, b) ==
    CASE a.t = "nan" \/ b.t = "nan" -> NaN
      [] a.t = "inf" /\ IsFinite(b) /\ Num(b) # 0 ->
            [a EXCEPT !.neg = (a.neg # (Num(b) < 0))]
      [] IsFinite(a) /\ IsFinite(b) -> Frac(Num(a) * Num(b), Den(a) * Den(b))
NumDiv(a, b) ==
    CASE a.t = "nan" \/ b.t = "nan" -> NaN
      [] a.t = "inf" /\ IsFinite(b) /\ Num(b) # 0 ->
            [a EXCEPT !.neg = (a.neg # (Num(b) < 0))]
      [] IsFinite(a) /\ IsFinite(b) /\ Num(b) > 0 ->
            Frac(Num(a) * Den(b), Den(a) * Num(b))
      [] IsFinite(a) /\ IsFinite(b) /\ Num(b) < 0 ->
            Frac(-(Num(a) * Den(b)), Den(a) * (-Num(b)))
NumAdd(a, b) ==
    CASE a.t = "nan" \/ b.t = "nan" -> NaN
      [] a.t = "inf" /\ IsFinite(b) -> a
      [] IsInt(a) /\ IsInt(b) -> IntAdd(a, b)
      [] IsFinite(a) /\ IsFinite(b) ->
            Frac(Num(a) * Den(b) + Num(b) * Den(a), Den(a) * Den(b))
NumSub(a, b) ==
    CASE a.t = "nan" \/ b.t = "nan" -> NaN
      [] a.t = "inf" /\ IsFinite(b) -> a
      [] IsInt(a) /\ IsInt(b) -> IntSub(a, b)
      [] IsFinite(a) /\ IsFinite(b) ->
            Frac(Num(a) * Den(b) - Num(b) * Den(a), Den(a) * Den(b))

(* a < b.  Every comparison with NaN, and with undefined, is false.        *)
NumLess(a, b) ==
    CASE ~IsNumber(a) \/ ~IsNumber(b) \/ a.t = "nan" \/ b.t = "nan" -> FALSE
      [] IsInt(a) /\ IsInt(b) -> IntLess(a, b)
      [] IsHuge(a) /\ ~IsHuge(b) -> IsNegative(a)
      [] IsHuge(b) /\ ~IsHuge(a) -> ~IsNegative(b)
      [] IsTiny(a) /\ FitsSmall(b) ->
            IF IsNegative(a) THEN Small(b) >= 0 ELSE Small(b) > 0
      [] IsTiny(b) /\ FitsSmall(a) ->
            IF IsNegative(b) THEN Small(a) < 0 ELSE Small(a) <= 0
      [] IsFinite(a) /\ FitsSmall(b) /\ ~IsHuge(a) /\ ~IsTiny(a) /\ ~IsInt(a) ->
            Num(a) \div Den(a) < Small(b)
      [] FitsSmall(a) /\ IsFinite(b) /\ ~IsHuge(b) /\ ~IsTiny(b) /\ ~IsInt(b) ->
            Small(a) < -((-Num(b)) \div Den(b))
      [] IsFinite(a) /\ IsFinite(b) /\ ~IsHuge(a) /\ ~IsHuge(b)
         /\ ~IsTiny(a) /\ ~IsTiny(b) /\ ~IsInt(a) /\ ~IsInt(b) ->
            Num(a) * Den(b) < Num(b) * Den(a)
NumGreater(a, b) == NumLess(b, a)
NumLessEq(a, b) ==
    IsNumber(a) /\ IsNumber(b) /\ a.t # "nan" /\ b.t # "nan" /\ ~NumLess(b, a)
NumGreaterEq(a, b) == NumLessEq(b, a)

(* Math.abs                                                                *)
MathAbs(v) ==
    CASE v.t = "int" -> IF v.h < 0 THEN IntSub(I(0), v) ELSE v
      [] v.t = "rat" -> [v EXCEPT !.n = Abs(v.n)]
      [] v.t \in {"flt", "inf"} -> [v EXCEPT !.neg = FALSE]
      [] OTHER -> NaN

(* isNaN                                                                   *)
IsNaN(v) == v.t \in {"nan", "undefined"}

(* The truth value JavaScript gives a value in a condition.                *)
Truthy(v) ==
    CASE v.t = "bool" -> v.b
      [] v.t = "int" -> v.h # 0 \/ v.l # 0
      [] v.t = "flt" -> v.man # 0
      [] v.t \in {"rat", "inf", "object", "array"} -> TRUE
      [] v.t = "string" -> v.s # ""
      [] OTHER -> FALSE

----------------------------------------------------------------------------
(* Strings of numbers, as template literals print them.                    *)

Pad4(n) ==
    (IF n < 10 THEN "000" ELSE IF n < 100 THEN "00" ELSE IF n < 1000 THEN "0" ELSE "")
    \o ToString(n)

(* A non-negative integer in decimal: h * 65536 + l is                     *)
(* (6 * h) * 10^4 + (5536 * h + l).                                        *)
NatStr(v) ==
    LET low == 5536 * v.h + v.l
        top == 6 * v.h + low \div 10000
    IN  IF top = 0 THEN ToString(low) ELSE ToString(top) \o Pad4(low % 10000)

(* The digits of a number that is no integer are not modelled: it prints   *)
(* as the fraction it is.                                                  *)
NumStr(v) ==
    CASE v.t = "int" -> IF v.h < 0 THEN "-" \o NatStr(IntSub(I(0), v)) ELSE NatStr(v)
      [] v.t = "nan" -> "NaN"
      [] v.t = "inf" -> IF v.neg THEN "-Infinity" ELSE "Infinity"
      [] v.t = "rat" -> ToString(v.n) \o "/" \o ToString(v.d)
      [] v.t = "flt" -> (IF v.neg THEN "-" ELSE "") \o ToString(v.man)
                        \o "*2^" \o ToString(v.exp)
      [] v.t = "undefined" -> "undefined"
      [] v.t = "null" -> "null"
      [] v.t = "bool" -> IF v.b THEN "true" ELSE "false"

Str(s) == [t |-> "string", s |-> s]

----------------------------------------------------------------------------
(* DataConversionUtils: the decoders.                                      *)

(* registers[i], JavaScript's 0-based index; undefined outside the array.  *)
At(regs, i) == IF i + 1 \in DOMAIN regs THEN regs[i + 1] ELSE Undefined

(* A footprint table that forgets the two-register float.                  *)
getRequiredRegisters_NoFloat(dataType) ==
    CASE dataType \in {"int32", "uint32"} -> 2
      [] OTHER -> 1

getRequiredRegisters(dataType) ==
    CASE dataType \in {"int16", "uint16", "scaled", "bitfield", "bcd"} -> 1
      [] dataType \in {"int32", "uint32", "float32"} -> 2
      [] OTHER -> 1

(* convertInt16 that takes 32767 for a negative number.                     *)
convertInt16_From32767(register, byteOrder) ==
    IF NumGreaterEq(register, I(32767)) THEN NumSub(register, I(65536))
    ELSE register

convertInt16(register, byteOrder) ==
    IF NumGreater(register, I(32767)) THEN NumSub(register, I(65536))
    ELSE register

convertUint16(register, byteOrder) == JsAnd(register, I(65535))

convertInt32(regs, byteOrder, wordSwap) ==
    LET reg0 == IF Truthy(wordSwap) THEN At(regs, 1) ELSE At(regs, 0)
        reg1 == IF Truthy(wordSwap) THEN At(regs, 0) ELSE At(regs, 1)
        value == IF byteOrder = "big_endian"
                 THEN JsOr(JsShl(reg0, 16), reg1)
                 ELSE JsOr(JsShl(reg1, 16), reg0)
    IN  IF NumGreater(value, Wide(32767, 65535))
        THEN NumSub(value, Wide(65536, 0))
        ELSE value

(* convertUint32 without the final >>> 0.                                  *)
convertUint32_Signed(regs, byteOrder, wordSwap) ==
    LET reg0 == IF Truthy(wordSwap) THEN At(regs, 1) ELSE At(regs, 0)
        reg1 == IF Truthy(wordSwap) THEN At(regs, 0) ELSE At(regs, 1)
    IN  IF byteOrder = "big_endian"
        THEN JsOr(JsShl(reg0, 16), reg1)
        ELSE JsOr(JsShl(reg1, 16), reg0)

convertUint32(regs, byteOrder, wordSwap) ==
    LET reg0 == IF Truthy(wordSwap) THEN At(regs, 1) ELSE At(regs, 0)
        reg1 == IF Truthy(wordSwap) THEN At(regs, 0) ELSE At(regs, 1)
    IN  IF byteOrder = "big_endian"
        THEN JsUshr0(JsOr(JsShl(reg0, 16), reg1))
        ELSE JsUshr0(JsOr(JsShl(reg1, 16), reg0))

(* setUint16 writing the low byte first (littleEndian = true).             *)
setUint16_LowFirst(view, offset, value) ==
    LET u == ToInt32(value).lo
    IN  [view EXCEPT ![offset + 1] = u % 256, ![offset + 2] = u \div 256]

(* DataView.setUint16(offset, value, false): the value modulo 2^16, its    *)
(* high byte first.                                                        *)
setUint16(view, offset, value) ==
    LET u == ToInt32(value).lo
    IN  [view EXCEPT ![offset + 1] = u \div 256, ![offset + 2] = u % 256]

(* getFloat32 without the implicit leading one of a normal significand.    *)
getFloat32_NoLeadingOne(view) ==
    LET neg == view[1] >= 128
        expField == (view[1] % 128) * 2 + view[2] \div 128
        frac == (view[2] % 128) * Two16 + view[3] * 256 + view[4]
    IN  CASE expField = 255 /\ frac # 0 -> NaN
          [] expField = 255 /\ frac = 0 -> [t |-> "inf", neg |-> neg]
          [] expField = 0 /\ frac = 0 ->
                [t |-> "flt", neg |-> neg, man |-> 0, exp |-> 0]
          [] expField = 0 /\ frac # 0 ->
                [t |-> "flt", neg |-> neg, man |-> frac, exp |-> -149]
          [] OTHER ->
                [t |-> "flt", neg |-> neg, man |-> frac, exp |-> expField - 150]

(* DataView.getFloat32(0, false): the four bytes as an IEEE-754 single,    *)
(* sign and exponent in the first bytes.                                   *)
getFloat32(view) ==
    LET neg == view[1] >= 128
        expField == (view[1] % 128) * 2 + view[2] \div 128
        frac == (view[2] % 128) * Two16 + view[3] * 256 + view[4]
    IN  CASE expField = 255 /\ frac # 0 -> NaN
          [] expField = 255 /\ frac = 0 -> [t |-> "inf", neg |-> neg]
          [] expField = 0 /\ frac = 0 ->
                [t |-> "flt", neg |-> neg, man |-> 0, exp |-> 0]
          [] expField = 0 /\ frac # 0 ->
                [t |-> "flt", neg |-> neg, man |-> frac, exp |-> -149]
          [] OTHER ->
                [t |-> "flt", neg |-> neg, man |-> 8388608 + frac,
                 exp |-> expField - 150]

(* The buffer convertFloat32 fills before it reads the float.              *)
float32Buffer(regs, byteOrder, wordSwap) ==
    LET reg0 == IF Truthy(wordSwap) THEN At(regs, 1) ELSE At(regs, 0)
        reg1 == IF Truthy(wordSwap) THEN At(regs, 0) ELSE At(regs, 1)
        buffer == <<0, 0, 0, 0>>
    IN  IF byteOrder = "big_endian"
        THEN setUint16(setUint16(buffer, 0, reg0), 2, reg1)
        ELSE setUint16(setUint16(buffer, 0, reg1), 2, reg0)

convertFloat32(regs, byteOrder, wordSwap) ==
    getFloat32(float32Buffer(regs, byteOrder, wordSwap))

convertScaled(register, rule) ==
    LET scaled == IF rule.scaleFactor # Undefined
                  THEN NumMul(register, rule.scaleFactor) ELSE register
    IN  IF rule.offset # Undefined THEN NumAdd(scaled, rule.offset) ELSE scaled

(* convertBitfield that masks the register without shifting it.            *)
convertBitfield_NoShift(register, rule) ==
    IF rule.bitMask # Undefined
    THEN JsAnd(register, rule.bitMask)
    ELSE IF rule.bitPosition # Undefined
    THEN LET bitLength == IF Truthy(rule.bitLength) THEN rule.bitLength ELSE I(1)
             mask == NumSub(JsShl(I(1), Small(bitLength)), I(1))
             result == JsAnd(register, mask)
         IN  IF bitLength = I(1) THEN Bool(result # I(0)) ELSE result
    ELSE register

convertBitfield(register, rule) ==
    IF rule.bitMask # Undefined
    THEN JsAnd(register, rule.bitMask)
    ELSE IF rule.bitPosition # Undefined
    THEN LET bitLength == IF Truthy(rule.bitLength) THEN rule.bitLength ELSE I(1)
             mask == NumSub(JsShl(I(1), Small(bitLength)), I(1))
             result == JsAnd(JsShr(register, Small(rule.bitPosition)), mask)
         IN  IF bitLength = I(1) THEN Bool(result # I(0)) ELSE result
    ELSE register

(* convertBCD that takes the low byte for the hundreds.                     *)
convertBCD_LowFirst(register, byteOrder) ==
    LET high == JsAnd(JsShr(register, 8), I(255))
        low == JsAnd(register, I(255))
        highDecimal == NumAdd(NumMul(JsAnd(JsShr(high, 4), I(15)), I(10)),
                              JsAnd(high, I(15)))
        lowDecimal == NumAdd(NumMul(JsAnd(JsShr(low, 4), I(15)), I(10)),
                             JsAnd(low, I(15)))
    IN  NumAdd(NumMul(lowDecimal, I(100)), highDecimal)

convertBCD(register, byteOrder) ==
    LET high == JsAnd(JsShr(register, 8), I(255))
        low == JsAnd(register, I(255))
        highDecimal == NumAdd(NumMul(JsAnd(JsShr(high, 4), I(15)), I(10)),
                              JsAnd(high, I(15)))
        lowDecimal == NumAdd(NumMul(JsAnd(JsShr(low, 4), I(15)), I(10)),
                             JsAnd(low, I(15)))
    IN  NumAdd(NumMul(highDecimal, I(100)), lowDecimal)

(* The decimal n / d of a literal such as 0.0689476.                       *)
Dec(n, d) == Frac(n, d)

conversionKeys ==
    {"celsius_to_fahrenheit", "fahrenheit_to_celsius", "celsius_to_kelvin",
     "kelvin_to_celsius", "psi_to_bar", "bar_to_psi", "pascal_to_bar",
     "bar_to_pascal", "gpm_to_lpm", "lpm_to_gpm", "cfm_to_cmh", "cmh_to_cfm",
     "hp_to_kw", "kw_to_hp", "btu_to_kw", "kw_to_btu"}

conversionMap(key, val) ==
    CASE key = "celsius_to_fahrenheit" -> NumAdd(NumDiv(NumMul(val, I(9)), I(5)), I(32))
      [] key = "fahrenheit_to_celsius" -> NumDiv(NumMul(NumSub(val, I(32)), I(5)), I(9))
      [] key = "celsius_to_kelvin" -> NumAdd(val, Dec(27315, 100))
      [] key = "kelvin_to_celsius" -> NumSub(val, Dec(27315, 100))
      [] key = "psi_to_bar" -> NumMul(val, Dec(689476, 10000000))
      [] key = "bar_to_psi" -> NumMul(val, Dec(145038, 10000))
      [] key = "pascal_to_bar" -> NumMul(val, Dec(1, 100000))
      [] key = "bar_to_pascal" -> NumMul(val, I(100000))
      [] key = "gpm_to_lpm" -> NumMul(val, Dec(378541, 100000))
      [] key = "lpm_to_gpm" -> NumMul(val, Dec(264172, 1000000))
      [] key = "cfm_to_cmh" -> NumMul(val, Dec(169901, 100000))
      [] key = "cmh_to_cfm" -> NumMul(val, Dec(588578, 1000000))
      [] key = "hp_to_kw" -> NumMul(val, Dec(745699, 1000000))
      [] key = "kw_to_hp" -> NumMul(val, Dec(134102, 100000))
      [] key = "btu_to_kw" -> NumMul(val, Dec(293071, 1000000000))
      [] key = "kw_to_btu" -> NumMul(val, Dec(341214, 100))

applyUnitConversion(value, conversion) ==
    LET conversionKey == conversion.from \o "_to_" \o conversion.to
    IN  IF conversionKey \in conversionKeys
        THEN conversionMap(conversionKey, value)
        ELSE value

RECURSIVE Pow10(_)
Pow10(n) == IF n = 0 THEN 1 ELSE 10 * Pow10(n - 1)

(* Number.prototype.toFixed raises a RangeError for digits outside 0..100. *)
toFixedThrows(digits) == NumLess(digits, I(0)) \/ NumGreater(digits, I(100))

(* Number(value.toFixed(digits)): the nearest multiple of 10^-digits, a    *)
(* tie going to the one larger in magnitude.                               *)
toFixed(value, digits) ==
    CASE value.t \in {"int", "nan", "inf"} -> value
      [] value.t = "flt" /\ value.exp >= 0 -> value
      [] value.t = "rat" \/ (value.t = "flt" /\ value.exp < 0) ->
            LET scale == Pow10(Small(digits))
                d == Den(value)
                whole == Abs(Num(value)) \div d
                part == Abs(Num(value)) % d
                q == whole * scale + (2 * part * scale + d) \div (2 * d)
            IN  Frac(IF Num(value) < 0 THEN -q ELSE q, scale)

(* validateValue with the bounds exclusive.                                *)
validateValue_Exclusive(value, validation) ==
    IF IsNumber(value)
    THEN IF IsNaN(value) /\ ~Truthy(validation.allowNaN)
         THEN [valid |-> FALSE, error |-> Str("Value is NaN")]
         ELSE IF validation.min # Undefined /\ NumLessEq(value, validation.min)
         THEN [valid |-> FALSE, error |-> Str("below minimum")]
         ELSE IF validation.max # Undefined /\ NumGreaterEq(value, validation.max)
         THEN [valid |-> FALSE, error |-> Str("above maximum")]
         ELSE [valid |-> TRUE, error |-> Undefined]
    ELSE [valid |-> TRUE, error |-> Undefined]

validateValue(value, validation) ==
    IF IsNumber(value)
    THEN IF IsNaN(value) /\ ~Truthy(validation.allowNaN)
         THEN [valid |-> FALSE, error |-> Str("Value is NaN")]
         ELSE IF validation.min # Undefined /\ NumLess(value, validation.min)
         THEN [valid |-> FALSE,
               error |-> Str("Value " \o NumStr(value) \o " is below minimum "
                             \o NumStr(validation.min))]
         ELSE IF validation.max # Undefined /\ NumGreater(value, validation.max)
         THEN [valid |-> FALSE,
               error |-> Str("Value " \o NumStr(value) \o " is above maximum "
                             \o NumStr(validation.max))]
         ELSE [valid |-> TRUE, error |-> Undefined]
    ELSE [valid |-> TRUE, error |-> Undefined]

----------------------------------------------------------------------------
(* DataConversionUtils.convertData.  A call completes either by returning  *)
(* a result or by raising an error: [threw |-> FALSE, result |-> r] or     *)
(* [threw |-> TRUE, error |-> message].                                    *)

Return(r) == [threw |-> FALSE, result |-> r]
Throw(message) == [threw |-> TRUE, error |-> Str(message)]

Min(a, b) == IF a < b THEN a ELSE b
Max(a, b) == IF a > b THEN a ELSE b

(* Array.prototype.slice(start, end)                                       *)
slice(regs, start, end) ==
    LET norm(k) == IF k < 0 THEN Max(Len(regs) + k, 0) ELSE Min(k, Len(regs))
    IN  SubSeq(regs, norm(start) + 1, norm(end))

Array(a) == [t |-> "array", a |-> a]

(* The switch on rule.dataType: the decoded value, or undefined for an     *)
(* unsupported data type (the default branch).                             *)
supportedTypes ==
    {"int16", "uint16", "int32", "uint32", "float32", "scaled", "bitfield", "bcd"}

decode(dataRegisters, rule) ==
    CASE rule.dataType = "int16" -> convertInt16(At(dataRegisters, 0), rule.byteOrder)
      [] rule.dataType = "uint16" -> convertUint16(At(dataRegisters, 0), rule.byteOrder)
      [] rule.dataType = "int32" ->
            convertInt32(dataRegisters, rule.byteOrder, rule.wordSwap)
      [] rule.dataType = "uint32" ->
            convertUint32(dataRegisters, rule.byteOrder, rule.wordSwap)
      [] rule.dataType = "float32" ->
            convertFloat32(dataRegisters, rule.byteOrder, rule.wordSwap)
      [] rule.dataType = "scaled" -> convertScaled(At(dataRegisters, 0), rule)
      [] rule.dataType = "bitfield" -> convertBitfield(At(dataRegisters, 0), rule)
      [] rule.dataType = "bcd" -> convertBCD(At(dataRegisters, 0), rule.byteOrder)

emptyResult(rule) ==
    [name |-> rule.name, value |-> Null, originalValue |-> Null,
     dataType |-> rule.dataType, valid |-> FALSE, error |-> Undefined,
     metadata |->
       [byteOrder |-> rule.byteOrder,
        scaleFactor |-> rule.scaleFactor,
        offset |-> rule.offset,
        unitConversion |->
          IF rule.unitConversion # Undefined
          THEN Str(rule.unitConversion.from \o " to " \o rule.unitConversion.to)
          ELSE Undefined]]

(* The body of the try block, a step at a time; each step hands the result *)
(* object and the value so far to the next.                                *)

(* Validate result.                                                        *)
validated(result, value, validation) ==
    Return([result EXCEPT !.value = value, !.valid = validation.valid,
                          !.error = validation.error])

validateStep(rule, result, value) ==
    IF rule.validation # Undefined /\ rule.validation.enabled
    THEN validated(result, value, validateValue(value, rule.validation))
    ELSE Return([result EXCEPT !.value = value, !.valid = TRUE])

(* Apply decimal places rounding.                                          *)
roundStep(rule, result, value) ==
    IF rule.decimalPlaces # Undefined /\ IsNumber(value)
    THEN IF toFixedThrows(rule.decimalPlaces)
         THEN Throw("toFixed() digits argument must be between 0 and 100")
         ELSE validateStep(rule, result, toFixed(value, rule.decimalPlaces))
    ELSE validateStep(rule, result, value)

(* Apply unit conversion if specified.                                     *)
unitStep(rule, result, value) ==
    IF rule.unitConversion # Undefined /\ IsNumber(value)
    THEN roundStep(rule, result, applyUnitConversion(value, rule.unitConversion))
    ELSE roundStep(rule, result, value)

(* Extract registers for conversion, and convert by data type.             *)
decodeStep(rule, result, dataRegisters) ==
    IF rule.dataType \notin supportedTypes
    THEN Return([result EXCEPT
            !.originalValue = IF Len(dataRegisters) = 1 THEN dataRegisters[1]
                              ELSE Array(dataRegisters),
            !.error = Str("Unsupported data type: " \o rule.dataType)])
    ELSE unitStep(rule,
                  [result EXCEPT
                     !.originalValue = IF Len(dataRegisters) = 1 THEN dataRegisters[1]
                                       ELSE Array(dataRegisters)],
                  decode(dataRegisters, rule))

(* Validate register availability.                                         *)
availableStep(regs, rule, result, requiredRegisters) ==
    IF Len(regs) < rule.startRegister + requiredRegisters
    THEN Return([result EXCEPT !.error =
            Str("Not enough registers available. Required: "
                \o ToString(requiredRegisters) \o ", Available: "
                \o ToString(Len(regs) - rule.startRegister))])
    ELSE decodeStep(rule, result,
                    slice(regs, rule.startRegister,
                          rule.startRegister + requiredRegisters))

convertDataTry(regs, rule) ==
    availableStep(regs, rule, emptyResult(rule), getRequiredRegisters(rule.dataType))

(* The catch block.                                                        *)
convertDataCatch(rule, error) ==
    Return([name |-> rule.name, value |-> Null, originalValue |-> Null,
            dataType |-> rule.dataType, valid |-> FALSE, error |-> error,
            metadata |-> [byteOrder |-> rule.byteOrder]])

(* convertData without its catch block.                                    *)
convertData_NoCatch(regs, rule) == convertDataTry(regs, rule)

caught(rule, attempt) ==
    IF attempt.threw THEN convertDataCatch(rule, attempt.error) ELSE attempt

convertData(regs, rule) == caught(rule, convertDataTry(regs, rule))

----------------------------------------------------------------------------
(* QuickConvert.convert with options.autoDetect, and autoConvert.  A field *)
(* that is not set on the result object is undefined.                      *)

extractRegisters(input) == IF input.data.t = "array" THEN input.data.a ELSE <<>>

emptyData ==
    [value |-> Undefined, raw |-> Undefined, scaled |-> Undefined, type |-> Undefined,
     temperature_celsius |-> Undefined, temperature_fahrenheit |-> Undefined,
     pressure |-> Undefined, registers |-> Undefined, register_count |-> Undefined,
     preview |-> Undefined, modbus_info |-> Undefined]

autoRule(name, dataType) ==
    [name |-> name, startRegister |-> 0, dataType |-> dataType,
     byteOrder |-> "big_endian", wordSwap |-> Undefined, scaleFactor |-> Undefined,
     offset |-> Undefined, decimalPlaces |-> Undefined, bitMask |-> Undefined,
     bitPosition |-> Undefined, bitLength |-> Undefined, validation |-> Undefined,
     unitConversion |-> Undefined]

(* The single-register branch.                                             *)
singleValue(acc, value) ==
    IF NumGreaterEq(value, I(-32768)) /\ NumLessEq(value, I(32767))
    THEN [data |-> [acc.data EXCEPT
                      !.value = value, !.raw = value,
                      !.scaled = IF NumGreater(MathAbs(value), I(1000))
                                 THEN NumDiv(value, I(100)) ELSE Undefined],
          metadata |-> [acc.metadata EXCEPT !.conversionsApplied = 1]]
    ELSE acc

autoSingle(regs, acc) ==
    IF Len(regs) = 1 THEN singleValue(acc, At(regs, 0)) ELSE acc

(* Guess common meanings.                                                  *)
guessMeaning(data, v) ==
    IF NumGreaterEq(v, I(-50)) /\ NumLessEq(v, I(150))
    THEN [data EXCEPT !.temperature_celsius = v,
                      !.temperature_fahrenheit =
                          NumAdd(NumDiv(NumMul(v, I(9)), I(5)), I(32))]
    ELSE IF NumGreaterEq(v, I(0)) /\ NumLessEq(v, I(1000))
    THEN [data EXCEPT !.pressure = v]
    ELSE data

(* Try int32.                                                              *)
tryInt32(acc, int32Result) ==
    IF int32Result.valid
    THEN [data |-> [acc.data EXCEPT !.value = int32Result.value,
                                    !.type = Str("int32")],
          metadata |-> [detectedType |-> "int32", conversionsApplied |-> 1]]
    ELSE acc

(* The two-register branch: float32 first, int32 otherwise.                *)
tryFloat32(regs, acc, floatResult) ==
    IF floatResult.valid /\ ~IsNaN(floatResult.value)
       /\ NumLess(MathAbs(floatResult.value), I(10000))
    THEN [data |-> guessMeaning([acc.data EXCEPT !.value = floatResult.value,
                                                 !.type = Str("float32")],
                                floatResult.value),
          metadata |-> [detectedType |-> "float32", conversionsApplied |-> 1]]
    ELSE tryInt32(acc, convertData(regs, autoRule("value", "int32")).result)

autoPair(regs, acc) ==
    IF Len(regs) >= 2
    THEN tryFloat32(regs, acc, convertData(regs, autoRule("value", "float32")).result)
    ELSE acc

(* The preview for more than two registers.                                *)
preview(regs, acc, previewFloat, previewInt32) ==
    [acc EXCEPT !.data.registers = Array(regs),
                !.data.register_count = I(Len(regs)),
                !.data.preview =
                    [first_as_int16 |-> At(regs, 0),
                     first_two_as_float32 |-> previewFloat.value,
                     first_two_as_int32 |-> previewInt32.value]]

autoPreview(regs, acc) ==
    IF Len(regs) > 2
    THEN preview(regs, acc,
                 convertData(regs, autoRule("preview_float", "float32")).result,
                 convertData(regs, autoRule("preview_int32", "int32")).result)
    ELSE acc

autoInfo(input, acc) ==
    IF Truthy(input.functionCode)
    THEN [acc EXCEPT !.data.modbus_info =
            [function_code |-> input.functionCode, address |-> input.address,
             quantity |-> input.quantity]]
    ELSE acc

autoStart ==
    [data |-> emptyData,
     metadata |-> [detectedType |-> "auto", conversionsApplied |-> 0]]

autoReturn(acc) ==
    [success |-> TRUE, data |-> acc.data, errors |-> Undefined,
     metadata |-> acc.metadata]

autoConvert(regs, input) ==
    autoReturn(autoInfo(input,
                        autoPreview(regs, autoPair(regs, autoSingle(regs, autoStart)))))

convertRegisters(regs, input) ==
    IF Len(regs) = 0
    THEN [success |-> FALSE, data |-> Undefined,
          errors |-> Array(<<Str("No register data found in input")>>),
          metadata |-> Undefined]
    ELSE autoConvert(regs, input)

convert(input) == convertRegisters(extractRegisters(input), input)

----------------------------------------------------------------------------
(* The quick mode of the converter node (executeQuickMode), types 'bcd'    *)
(* and 'double'.                                                           *)

(* extractRegisters of the quick-mode node: the common patterns of Modbus  *)
(* read nodes; the inputs here carry the registers in data.                *)
quickExtractRegisters(inputData) ==
    IF Truthy(inputData.data) /\ inputData.data.t = "array"
    THEN inputData.data ELSE Null

(* The loop of convertBCD without the check of the digit.                  *)
RECURSIVE bcdLoop_NoDigitCheck(_, _, _)
bcdLoop_NoDigitCheck(value, result, multiplier) ==
    IF NumGreater(value, I(0))
    THEN bcdLoop_NoDigitCheck(JsShr(value, 4),
                              NumAdd(result, NumMul(JsAnd(value, I(15)), multiplier)),
                              NumMul(multiplier, I(10)))
    ELSE result

(* while (value > 0) { digit = value & 0x0F; ...; value >>= 4 }            *)
RECURSIVE bcdLoop(_, _, _)
bcdLoop(value, result, multiplier) ==
    IF NumGreater(value, I(0))
    THEN IF NumGreater(JsAnd(value, I(15)), I(9))
         THEN NaN
         ELSE bcdLoop(JsShr(value, 4),
                      NumAdd(result, NumMul(JsAnd(value, I(15)), multiplier)),
                      NumMul(multiplier, I(10)))
    ELSE result

quickConvertBCD(value) == bcdLoop(value, I(0), I(1))

(* The metadata object, when includeMetadata is set.                       *)
quickMetadata(params, regs, dataType) ==
    IF params.includeMetadata
    THEN [t |-> "object", type |-> Str(params.quickConvertType),
          byteOrder |-> Str(params.quickByteOrder), wordSwap |-> Bool(params.wordSwap),
          rawRegisters |-> Array(regs), registerCount |-> I(Len(regs)),
          scaleFactor |-> IF params.enableScaling THEN params.scaleFactorValue
                          ELSE Undefined,
          scalingApplied |-> IF params.enableScaling THEN Bool(TRUE) ELSE Undefined,
          dataType |-> dataType]
    ELSE Undefined

(* case 'bcd', and the final output under the default field names.         *)
quickBcdOutput(params, regs, bcdValue) ==
    IF ~IsNaN(bcdValue)
    THEN [output |-> [value |-> IF params.enableScaling
                                THEN NumMul(bcdValue, params.scaleFactorValue)
                                ELSE bcdValue],
          conversion |-> quickMetadata(params, regs, Str("bcd"))]
    ELSE [output |-> [value |-> Undefined],
          conversion |-> quickMetadata(params, regs, Undefined)]

(* Buffer.writeUInt16BE(value, offset): the high byte first; a value        *)
(* outside 0..65535 raises a RangeError.                                   *)
writeUInt16BE(buffer, value, offset) ==
    IF buffer = Null \/ ~IsInt(value) \/ NumLess(value, I(0))
       \/ NumGreater(value, I(Max16))
    THEN Null
    ELSE [buffer EXCEPT !.b[offset + 1] = Small(value) \div 256,
                        !.b[offset + 2] = Small(value) % 256]

(* Buffer.writeUInt16LE(value, offset): the low byte first.                *)
writeUInt16LE(buffer, value, offset) ==
    IF buffer = Null \/ ~IsInt(value) \/ NumLess(value, I(0))
       \/ NumGreater(value, I(Max16))
    THEN Null
    ELSE [buffer EXCEPT !.b[offset + 1] = Small(value) % 256,
                        !.b[offset + 2] = Small(value) \div 256]

(* An IEEE-754 double of the fields sign, exponent and fraction; the 52    *)
(* bits of the fraction are kept as its top 4, middle 24 and low 24 bits.  *)
Double(neg, expField, top, middle, low) ==
    CASE expField = 2047 /\ (top # 0 \/ middle # 0 \/ low # 0) -> NaN
      [] expField = 2047 -> [t |-> "inf", neg |-> neg]
      [] expField = 0 ->
            [t |-> "double", neg |-> neg, man |-> <<top, middle, low>>,
             exp |-> IF top = 0 /\ middle = 0 /\ low = 0 THEN 0 ELSE -1074]
      [] OTHER ->
            [t |-> "double", neg |-> neg, man |-> <<16 + top, middle, low>>,
             exp |-> expField - 1075]

(* Buffer.readDoubleLE(0): the eight bytes as a double, the last byte of   *)
(* the buffer holding the sign and the top of the exponent.                *)
readDoubleLE(buffer) ==
    Double(buffer[8] >= 128,
           (buffer[8] % 128) * 16 + buffer[7] \div 16,
           buffer[7] % 16,
           buffer[6] * 65536 + buffer[5] * 256 + buffer[4],
           buffer[3] * 65536 + buffer[2] * 256 + buffer[1])

(* The buffer convertToDouble fills, or null when a write raises; every    *)
(* byte of the unsafe allocation is written before the read.               *)
doubleBuffer(regs, bigEndian) ==
    LET buffer == [t |-> "buffer", b |-> <<0, 0, 0, 0, 0, 0, 0, 0>>]
    IN  IF bigEndian
        THEN writeUInt16BE(writeUInt16BE(writeUInt16BE(writeUInt16BE(
                 buffer, At(regs, 0), 0), At(regs, 1), 2), At(regs, 2), 4),
                 At(regs, 3), 6)
        ELSE writeUInt16LE(writeUInt16LE(writeUInt16LE(writeUInt16LE(
                 buffer, At(regs, 3), 0), At(regs, 2), 2), At(regs, 1), 4),
                 At(regs, 0), 6)

convertToDouble(regs, bigEndian) ==
    IF Len(regs) < 4 THEN Null
    ELSE IF doubleBuffer(regs, bigEndian) = Null THEN Null
    ELSE readDoubleLE(doubleBuffer(regs, bigEndian).b)

(* case 'double', and the final output under the default field names.      *)
quickDoubleOutput(params, regs, doubleValue) ==
    IF Len(regs) >= 4 /\ doubleValue.t \in {"double", "inf", "nan"}
    THEN [output |-> [value |-> IF params.enableScaling
                                THEN NumMul(doubleValue, params.scaleFactorValue)
                                ELSE doubleValue],
          conversion |-> quickMetadata(params, regs, Str("double"))]
    ELSE [output |-> [value |-> Undefined],
          conversion |-> quickMetadata(params, regs, Undefined)]

quickModeRegisters(params, regs) ==
    IF ~Truthy(regs) \/ Len(regs.a) = 0
    THEN Throw("No register data found in input")
    ELSE IF params.quickConvertType = "double"
    THEN Return(quickDoubleOutput(params, regs.a,
                    convertToDouble(regs.a, params.quickByteOrder = "BE")))
    ELSE Return(quickBcdOutput(params, regs.a, quickConvertBCD(At(regs.a, 0))))

executeQuickMode(params, item) == quickModeRegisters(params, quickExtractRegisters(item))

----------------------------------------------------------------------------
(* The unit catalog, IndustrialUnits.  CONVERSIONS lists the entries in    *)
(* the order of the table; the convert function of the entry from -> to is *)
(* conversionFormula(from, to, val).                                       *)

Conversion(from, to) == [from |-> from, to |-> to]

(* The table without the entry rankine -> celsius.                         *)
CONVERSIONS_NoRankineToCelsius ==
    << Conversion("celsius", "fahrenheit"),
       Conversion("fahrenheit", "celsius"), Conversion("celsius", "kelvin"),
       Conversion("kelvin", "celsius"), Conversion("fahrenheit", "kelvin"),
       Conversion("kelvin", "fahrenheit"), Conversion("celsius", "rankine"),
       Conversion("pascal", "bar"), Conversion("bar", "pascal"),
       Conversion("psi", "bar"), Conversion("bar", "psi"),
       Conversion("pascal", "psi"), Conversion("psi", "pascal"),
       Conversion("bar", "atm"), Conversion("atm", "bar"),
       Conversion("mmhg", "pascal"), Conversion("pascal", "mmhg"),
       Conversion("gpm", "lpm"), Conversion("lpm", "gpm"),
       Conversion("cfm", "cmh"), Conversion("cmh", "cfm"),
       Conversion("lpm", "lps"), Conversion("lps", "lpm"),
       Conversion("cmh", "cms"), Conversion("cms", "cmh"),
       Conversion("watt", "kilowatt"), Conversion("kilowatt", "watt"),
       Conversion("horsepower", "kilowatt"),
       Conversion("kilowatt", "horsepower"), Conversion("btu_h", "kilowatt"),
       Conversion("kilowatt", "btu_h"),
       Conversion("ton_refrigeration", "kilowatt"),
       Conversion("kilowatt", "ton_refrigeration"),
       Conversion("joule", "kilowatt_hour"),
       Conversion("kilowatt_hour", "joule"), Conversion("btu", "joule"),
       Conversion("joule", "btu"), Conversion("calorie", "joule"),
       Conversion("joule", "calorie"), Conversion("meter", "foot"),
       Conversion("foot", "meter"), Conversion("inch", "meter"),
       Conversion("meter", "inch"), Conversion("millimeter", "meter"),
       Conversion("meter", "millimeter"), Conversion("centimeter", "meter"),
       Conversion("meter", "centimeter"), Conversion("kilogram", "pound"),
       Conversion("pound", "kilogram"), Conversion("gram", "kilogram"),
       Conversion("kilogram", "gram"), Conversion("ounce", "kilogram"),
       Conversion("kilogram", "ounce"), Conversion("ton", "kilogram"),
       Conversion("kilogram", "ton"), Conversion("liter", "gallon"),
       Conversion("gallon", "liter"), Conversion("cubic_meter", "cubic_foot"),
       Conversion("cubic_foot", "cubic_meter"), Conversion("barrel", "liter"),
       Conversion("liter", "barrel") >>

CONVERSIONS ==
    << Conversion("celsius", "fahrenheit"),
       Conversion("fahrenheit", "celsius"), Conversion("celsius", "kelvin"),
       Conversion("kelvin", "celsius"), Conversion("fahrenheit", "kelvin"),
       Conversion("kelvin", "fahrenheit"), Conversion("celsius", "rankine"),
       Conversion("rankine", "celsius"), Conversion("pascal", "bar"),
       Conversion("bar", "pascal"), Conversion("psi", "bar"),
       Conversion("bar", "psi"), Conversion("pascal", "psi"),
       Conversion("psi", "pascal"), Conversion("bar", "atm"),
       Conversion("atm", "bar"), Conversion("mmhg", "pascal"),
       Conversion("pascal", "mmhg"), Conversion("gpm", "lpm"),
       Conversion("lpm", "gpm"), Conversion("cfm", "cmh"),
       Conversion("cmh", "cfm"), Conversion("lpm", "lps"),
       Conversion("lps", "lpm"), Conversion("cmh", "cms"),
       Conversion("cms", "cmh"), Conversion("watt", "kilowatt"),
       Conversion("kilowatt", "watt"), Conversion("horsepower", "kilowatt"),
       Conversion("kilowatt", "horsepower"), Conversion("btu_h", "kilowatt"),
       Conversion("kilowatt", "btu_h"),
       Conversion("ton_refrigeration", "kilowatt"),
       Conversion("kilowatt", "ton_refrigeration"),
       Conversion("joule", "kilowatt_hour"),
       Conversion("kilowatt_hour", "joule"), Conversion("btu", "joule"),
       Conversion("joule", "btu"), Conversion("calorie", "joule"),
       Conversion("joule", "calorie"), Conversion("meter", "foot"),
       Conversion("foot", "meter"), Conversion("inch", "meter"),
       Conversion("meter", "inch"), Conversion("millimeter", "meter"),
       Conversion("meter", "millimeter"), Conversion("centimeter", "meter"),
       Conversion("meter", "centimeter"), Conversion("kilogram", "pound"),
       Conversion("pound", "kilogram"), Conversion("gram", "kilogram"),
       Conversion("kilogram", "gram"), Conversion("ounce", "kilogram"),
       Conversion("kilogram", "ounce"), Conversion("ton", "kilogram"),
       Conversion("kilogram", "ton"), Conversion("liter", "gallon"),
       Conversion("gallon", "liter"), Conversion("cubic_meter", "cubic_foot"),
       Conversion("cubic_foot", "cubic_meter"), Conversion("barrel", "liter"),
       Conversion("liter", "barrel") >>

conversionFormula(from, to, val) ==
    CASE from = "celsius" /\ to = "fahrenheit" ->
            NumAdd(NumDiv(NumMul(val, I(9)), I(5)), I(32))
      [] from = "fahrenheit" /\ to = "celsius" ->
            NumDiv(NumMul(NumSub(val, I(32)), I(5)), I(9))
      [] from = "celsius" /\ to = "kelvin" ->
            NumAdd(val, Dec(27315, 100))
      [] from = "kelvin" /\ to = "celsius" ->
            NumSub(val, Dec(27315, 100))
      [] from = "fahrenheit" /\ to = "kelvin" ->
            NumAdd(NumDiv(NumMul(NumSub(val, I(32)), I(5)), I(9)), Dec(27315, 100))
      [] from = "kelvin" /\ to = "fahrenheit" ->
            NumAdd(NumDiv(NumMul(NumSub(val, Dec(27315, 100)), I(9)), I(5)), I(32))
      [] from = "celsius" /\ to = "rankine" ->
            NumDiv(NumMul(NumAdd(val, Dec(27315, 100)), I(9)), I(5))
      [] from = "rankine" /\ to = "celsius" ->
            NumSub(NumDiv(NumMul(val, I(5)), I(9)), Dec(27315, 100))
      [] from = "pascal" /\ to = "bar" ->
            NumMul(val, Dec(1, 100000))
      [] from = "bar" /\ to = "pascal" ->
            NumMul(val, I(100000))
      [] from = "psi" /\ to = "bar" ->
            NumMul(val, Dec(689476, 10000000))
      [] from = "bar" /\ to = "psi" ->
            NumMul(val, Dec(145038, 10000))
      [] from = "pascal" /\ to = "psi" ->
            NumMul(val, Dec(145038, 1000000000))
      [] from = "psi" /\ to = "pascal" ->
            NumMul(val, Dec(689476, 100))
      [] from = "bar" /\ to = "atm" ->
            NumMul(val, Dec(986923, 1000000))
      [] from = "atm" /\ to = "bar" ->
            NumMul(val, Dec(101325, 100000))
      [] from = "mmhg" /\ to = "pascal" ->
            NumMul(val, Dec(133322, 1000))
      [] from = "pascal" /\ to = "mmhg" ->
            NumMul(val, Dec(750062, 100000000))
      [] from = "gpm" /\ to = "lpm" ->
            NumMul(val, Dec(378541, 100000))
      [] from = "lpm" /\ to = "gpm" ->
            NumMul(val, Dec(264172, 1000000))
      [] from = "cfm" /\ to = "cmh" ->
            NumMul(val, Dec(169901, 100000))
      [] from = "cmh" /\ to = "cfm" ->
            NumMul(val, Dec(588578, 1000000))
      [] from = "lpm" /\ to = "lps" ->
            NumDiv(val, I(60))
      [] from = "lps" /\ to = "lpm" ->
            NumMul(val, I(60))
      [] from = "cmh" /\ to = "cms" ->
            NumDiv(val, I(3600))
      [] from = "cms" /\ to = "cmh" ->
            NumMul(val, I(3600))
      [] from = "watt" /\ to = "kilowatt" ->
            NumDiv(val, I(1000))
      [] from = "kilowatt" /\ to = "watt" ->
            NumMul(val, I(1000))
      [] from = "horsepower" /\ to = "kilowatt" ->
            NumMul(val, Dec(745699, 1000000))
      [] from = "kilowatt" /\ to = "horsepower" ->
            NumMul(val, Dec(134102, 100000))
      [] from = "btu_h" /\ to = "kilowatt" ->
            NumMul(val, Dec(293071, 1000000000))
      [] from = "kilowatt" /\ to = "btu_h" ->
            NumMul(val, Dec(341214, 100))
      [] from = "ton_refrigeration" /\ to = "kilowatt" ->
            NumMul(val, Dec(351685, 100000))
      [] from = "kilowatt" /\ to = "ton_refrigeration" ->
            NumMul(val, Dec(284345, 1000000))
      [] from = "joule" /\ to = "kilowatt_hour" ->
            NumDiv(val, I(3600000))
      [] from = "kilowatt_hour" /\ to = "joule" ->
            NumMul(val, I(3600000))
      [] from = "btu" /\ to = "joule" ->
            NumMul(val, Dec(105506, 100))
      [] from = "joule" /\ to = "btu" ->
            NumDiv(val, Dec(105506, 100))
      [] from = "calorie" /\ to = "joule" ->
            NumMul(val, Dec(4184, 1000))
      [] from = "joule" /\ to = "calorie" ->
            NumDiv(val, Dec(4184, 1000))
      [] from = "meter" /\ to = "foot" ->
            NumMul(val, Dec(328084, 100000))
      [] from = "foot" /\ to = "meter" ->
            NumMul(val, Dec(3048, 10000))
      [] from = "inch" /\ to = "meter" ->
            NumMul(val, Dec(254, 10000))
      [] from = "meter" /\ to = "inch" ->
            NumMul(val, Dec(393701, 10000))
      [] from = "millimeter" /\ to = "meter" ->
            NumDiv(val, I(1000))
      [] from = "meter" /\ to = "millimeter" ->
            NumMul(val, I(1000))
      [] from = "centimeter" /\ to = "meter" ->
            NumDiv(val, I(100))
      [] from = "meter" /\ to = "centimeter" ->
            NumMul(val, I(100))
      [] from = "kilogram" /\ to = "pound" ->
            NumMul(val, Dec(220462, 100000))
      [] from = "pound" /\ to = "kilogram" ->
            NumMul(val, Dec(453592, 1000000))
      [] from = "gram" /\ to = "kilogram" ->
            NumDiv(val, I(1000))
      [] from = "kilogram" /\ to = "gram" ->
            NumMul(val, I(1000))
      [] from = "ounce" /\ to = "kilogram" ->
            NumMul(val, Dec(283495, 10000000))
      [] from = "kilogram" /\ to = "ounce" ->
            NumMul(val, Dec(35274, 1000))
      [] from = "ton" /\ to = "kilogram" ->
            NumMul(val, I(1000))
      [] from = "kilogram" /\ to = "ton" ->
            NumDiv(val, I(1000))
      [] from = "liter" /\ to = "gallon" ->
            NumMul(val, Dec(264172, 1000000))
      [] from = "gallon" /\ to = "liter" ->
            NumMul(val, Dec(378541, 100000))
      [] from = "cubic_meter" /\ to = "cubic_foot" ->
            NumMul(val, Dec(353147, 10000))
      [] from = "cubic_foot" /\ to = "cubic_meter" ->
            NumMul(val, Dec(283168, 10000000))
      [] from = "barrel" /\ to = "liter" ->
            NumMul(val, Dec(158987, 1000))
      [] from = "liter" /\ to = "barrel" ->
            NumDiv(val, Dec(158987, 1000))

(* CONVERSIONS.find(conv => conv.from === from && conv.to === to): the     *)
(* entries that match, and whether find returns one.                       *)
matching(from, to) ==
    {i \in 1..Len(CONVERSIONS) :
        CONVERSIONS[i].from = from /\ CONVERSIONS[i].to = to}
find(from, to) == matching(from, to) # {}

(* factor = testValue / conversion.convert(testValue), testValue = 1       *)
inverseConvert(value, conversion) ==
    NumMul(value, NumDiv(I(1), conversionFormula(conversion.from, conversion.to, I(1))))

(* IndustrialUnits.convert(value, fromUnit, toUnit)                        *)
unitConvert(value, fromUnit, toUnit) ==
    IF fromUnit = toUnit THEN Return(value)
    ELSE IF find(fromUnit, toUnit)
    THEN Return(conversionFormula(fromUnit, toUnit, value))
    ELSE IF find(toUnit, fromUnit)
    THEN Return(inverseConvert(value, Conversion(toUnit, fromUnit)))
    ELSE Throw("No conversion available from " \o fromUnit \o " to " \o toUnit)

----------------------------------------------------------------------------
(* ValidationUtils.  A rule here is the object processConversionRules      *)
(* builds, its name, startRegister, dataType and byteOrder values that may *)
(* be undefined; errors and warnings are lists of messages.                *)

whitespace == {" ", "\t", "\n"}

RECURSIVE trimStart(_)
trimStart(s) ==
    IF Len(s) > 0 /\ SubSeq(s, 1, 1) \in whitespace
    THEN trimStart(SubSeq(s, 2, Len(s))) ELSE s

RECURSIVE trimEnd(_)
trimEnd(s) ==
    IF Len(s) > 0 /\ SubSeq(s, Len(s), Len(s)) \in whitespace
    THEN trimEnd(SubSeq(s, 1, Len(s) - 1)) ELSE s

(* String.prototype.trim                                                   *)
trim(s) == trimEnd(trimStart(s))

lowerCase(c) ==
    CASE c = "A" -> "a" [] c = "B" -> "b" [] c = "C" -> "c" [] c = "D" -> "d"
      [] c = "E" -> "e" [] c = "F" -> "f" [] c = "G" -> "g" [] c = "H" -> "h"
      [] c = "I" -> "i" [] c = "J" -> "j" [] c = "K" -> "k" [] c = "L" -> "l"
      [] c = "M" -> "m" [] c = "N" -> "n" [] c = "O" -> "o" [] c = "P" -> "p"
      [] c = "Q" -> "q" [] c = "R" -> "r" [] c = "S" -> "s" [] c = "T" -> "t"
      [] c = "U" -> "u" [] c = "V" -> "v" [] c = "W" -> "w" [] c = "X" -> "x"
      [] c = "Y" -> "y" [] c = "Z" -> "z" [] OTHER -> c

(* String.prototype.toLowerCase                                            *)
RECURSIVE toLowerCase(_)
toLowerCase(s) ==
    IF Len(s) = 0 THEN s
    ELSE lowerCase(SubSeq(s, 1, 1)) \o toLowerCase(SubSeq(s, 2, Len(s)))

(* Array.prototype.join                                                    *)
RECURSIVE join(_, _)
join(list, separator) ==
    IF Len(list) = 0 THEN ""
    ELSE IF Len(list) = 1 THEN list[1]
    ELSE list[1] \o separator \o join(Tail(list), separator)

(* A value in a template literal.                                          *)
Text(v) ==
    CASE v.t = "string" -> v.s
      [] v.t = "undefined" -> "undefined"
      [] v.t = "null" -> "null"
      [] OTHER -> NumStr(v)

(* errors.push(message) under a condition.                                 *)
push(condition, message) == IF condition THEN <<message>> ELSE <<>>

ruleLabel(index) == "Rule " \o ToString(index + 1) \o ": "

(* The errors of the switch on rule.dataType.                              *)
dataTypeErrors(rule, index) ==
    CASE rule.dataType = Str("bitfield") ->
            push(rule.bitMask = Undefined /\ rule.bitPosition = Undefined,
                 ruleLabel(index)
                 \o "Bitfield conversion requires bit mask or bit position")
            \o push(rule.bitPosition # Undefined
                    /\ (NumLess(rule.bitPosition, I(0))
                        \/ NumGreater(rule.bitPosition, I(15))),
                    ruleLabel(index) \o "Bit position must be between 0 and 15")
            \o push(rule.bitLength # Undefined
                    /\ (NumLess(rule.bitLength, I(1))
                        \/ NumGreater(rule.bitLength, I(16))),
                    ruleLabel(index) \o "Bit length must be between 1 and 16")
      [] rule.dataType \in {Str("scaled"), Str("float32"), Str("int32"),
                            Str("uint32")} -> <<>>
      [] OTHER ->
            push(rule.dataType \notin {Str("int16"), Str("uint16"), Str("bcd")},
                 ruleLabel(index) \o "Unsupported data type '"
                 \o Text(rule.dataType) \o "'")

ruleErrors(rule, index) ==
    push(~Truthy(rule.name) \/ trim(rule.name.s) = "",
         ruleLabel(index) \o "Name is required")
    \o push(rule.startRegister = Undefined \/ NumLess(rule.startRegister, I(0)),
            ruleLabel(index) \o "Start register must be >= 0")
    \o push(~Truthy(rule.dataType), ruleLabel(index) \o "Data type is required")
    \o push(~Truthy(rule.byteOrder), ruleLabel(index) \o "Byte order is required")
    \o (IF Truthy(rule.dataType) THEN dataTypeErrors(rule, index) ELSE <<>>)
    \o push(/\ rule.validation # Undefined
            /\ rule.validation.enabled
            /\ rule.validation.min # Undefined
            /\ rule.validation.max # Undefined
            /\ NumGreater(rule.validation.min, rule.validation.max),
            ruleLabel(index)
            \o "Validation minimum cannot be greater than maximum")
    \o push(/\ rule.unitConversion # Undefined
            /\ (rule.unitConversion.from = "" \/ rule.unitConversion.to = ""),
            ruleLabel(index)
            \o "Unit conversion requires both 'from' and 'to' units")
    \o push(/\ rule.decimalPlaces # Undefined
            /\ (NumLess(rule.decimalPlaces, I(0))
                \/ NumGreater(rule.decimalPlaces, I(10))),
            ruleLabel(index) \o "Decimal places must be between 0 and 10")

ruleWarnings(rule, index) ==
    push(/\ rule.dataType = Str("scaled")
         /\ rule.scaleFactor = Undefined
         /\ rule.offset = Undefined,
         ruleLabel(index) \o "Scaled conversion without scale factor or offset")
    \o push(/\ rule.unitConversion # Undefined
            /\ rule.unitConversion.from = rule.unitConversion.to,
            ruleLabel(index) \o "Unit conversion from and to are the same")

(* A validation result whose valid is set from its errors.                 *)
ValidationResult(errors, warnings) ==
    [valid |-> Len(errors) = 0, errors |-> errors, warnings |-> warnings]

validateConversionRule(rule, index) ==
    ValidationResult(ruleErrors(rule, index), ruleWarnings(rule, index))

(* rules.forEach: the errors, and the warnings, of every rule in order.    *)
RECURSIVE eachRule(_, _, _)
eachRule(ruleList, index, field) ==
    IF index >= Len(ruleList) THEN <<>>
    ELSE validateConversionRule(ruleList[index + 1], index)[field]
         \o eachRule(ruleList, index + 1, field)

(* The name trimmed, its case kept.                                        *)
lowerName_CaseSensitive(rule) ==
    IF rule.name.t = "string" THEN trim(rule.name.s) ELSE ""

(* rules.map(rule => rule.name?.trim().toLowerCase()).filter(name => name) *)
lowerName(rule) ==
    IF rule.name.t = "string" THEN toLowerCase(trim(rule.name.s)) ELSE ""
notEmpty(name) == name # ""
ruleNames(ruleList) ==
    SelectSeq([i \in 1..Len(ruleList) |-> lowerName(ruleList[i])], notEmpty)

(* names.indexOf(name), counted from 1.                                    *)
indexOf(names, name) ==
    IF \E i \in 1..Len(names) : names[i] = name
    THEN CHOOSE i \in 1..Len(names) :
            names[i] = name /\ \A k \in 1..(i - 1) : names[k] # name
    ELSE 0

(* names.filter((name, index) => names.indexOf(name) !== index), from the  *)
(* index-th name on.                                                       *)
RECURSIVE duplicateNames(_, _)
duplicateNames(names, index) ==
    IF index > Len(names) THEN <<>>
    ELSE push(indexOf(names, names[index]) # index, names[index])
         \o duplicateNames(names, index + 1)

(* [...new Set(list)]                                                      *)
RECURSIVE unique(_, _)
unique(list, index) ==
    IF index > Len(list) THEN <<>>
    ELSE push(indexOf(list, list[index]) = index, list[index])
         \o unique(list, index + 1)

duplicateErrors(duplicates) ==
    push(Len(duplicates) > 0,
         "Duplicate conversion names found: " \o join(unique(duplicates, 1), ", "))

(* getRegistersNeeded that takes one register for float32.                *)
getRegistersNeeded_NoFloat(dataType) ==
    IF dataType \in {"int32", "uint32"} THEN 2 ELSE 1

getRegistersNeeded(dataType) ==
    IF dataType \in {"int32", "uint32", "float32"} THEN 2 ELSE 1

(* rangesOverlap taking ranges that only touch for apart.                  *)
rangesOverlap_Strict(range1, range2) ==
    range1.start < range2.end /\ range2.start < range1.end

rangesOverlap(range1, range2) ==
    range1.start <= range2.end /\ range2.start <= range1.end

(* The register range of every rule that has a start register and a data   *)
(* type.                                                                   *)
RECURSIVE registerRanges(_, _)
registerRanges(ruleList, index) ==
    IF index > Len(ruleList) THEN <<>>
    ELSE push(ruleList[index].startRegister # Undefined /\ Truthy(ruleList[index].dataType),
              [name |-> Text(ruleList[index].name),
               start |-> Small(ruleList[index].startRegister),
               end |-> Small(ruleList[index].startRegister)
                       + getRegistersNeeded(Text(ruleList[index].dataType)) - 1])
         \o registerRanges(ruleList, index + 1)

(* The two loops over the ranges, from the pair (i, j) on.                 *)
RECURSIVE overlapsFrom(_, _, _)
overlapsFrom(ranges, i, j) ==
    IF i > Len(ranges) THEN <<>>
    ELSE IF j > Len(ranges) THEN overlapsFrom(ranges, i + 1, i + 2)
    ELSE push(rangesOverlap(ranges[i], ranges[j]),
              ranges[i].name \o " and " \o ranges[j].name)
         \o overlapsFrom(ranges, i, j + 1)

checkRegisterOverlaps(ruleList) ==
    [overlaps |-> overlapsFrom(registerRanges(ruleList, 1), 1, 2)]

overlapWarnings(overlaps) ==
    push(Len(overlaps) > 0, "Register overlaps detected: " \o join(overlaps, ", "))

(* validateConversionRules that takes an overlap for an error.             *)
validateConversionRules_OverlapIsError(ruleList) ==
    IF Len(ruleList) = 0
    THEN [valid |-> FALSE, errors |-> <<"At least one conversion rule is required">>,
          warnings |-> <<>>]
    ELSE ValidationResult(
            eachRule(ruleList, 0, "errors")
            \o duplicateErrors(duplicateNames(ruleNames(ruleList), 1))
            \o overlapWarnings(checkRegisterOverlaps(ruleList).overlaps),
            eachRule(ruleList, 0, "warnings"))

(* validateConversionRules of the array that processConversionRules        *)
(* returns.                                                                *)
validateConversionRules(ruleList) ==
    IF Len(ruleList) = 0
    THEN [valid |-> FALSE, errors |-> <<"At least one conversion rule is required">>,
          warnings |-> <<>>]
    ELSE ValidationResult(
            eachRule(ruleList, 0, "errors")
            \o duplicateErrors(duplicateNames(ruleNames(ruleList), 1)),
            eachRule(ruleList, 0, "warnings")
            \o overlapWarnings(checkRegisterOverlaps(ruleList).overlaps))

----------------------------------------------------------------------------
(* The converter node, ModbusDataConverter.execute.  An object with keys   *)
(* that depend on the input (an item's json, the output data) is a         *)
(* function from its keys.                                                 *)

get(obj, key) == IF key \in DOMAIN obj THEN obj[key] ELSE Undefined
set(obj, key, value) ==
    [k \in DOMAIN obj \cup {key} |-> IF k = key THEN value ELSE obj[k]]

(* processConversionRules: one rule per configured conversion.             *)
processConversionRule(conversion) ==
    [name |-> conversion.name, startRegister |-> conversion.startRegister,
     dataType |-> conversion.dataType, byteOrder |-> conversion.byteOrder,
     scaleFactor |-> conversion.scaleFactor, offset |-> conversion.offset,
     decimalPlaces |-> conversion.decimalPlaces, bitMask |-> conversion.bitMask,
     bitPosition |-> conversion.bitPosition, bitLength |-> conversion.bitLength,
     validation |->
        IF conversion.enableValidation /\ conversion.validation # Undefined
        THEN [t |-> "object", enabled |-> TRUE, min |-> conversion.validation.min,
              max |-> conversion.validation.max,
              allowNaN |-> conversion.validation.allowNaN]
        ELSE Undefined,
     unitConversion |->
        IF conversion.enableUnitConversion /\ conversion.unitConversion # Undefined
        THEN [t |-> "object", from |-> conversion.unitConversion.from,
              to |-> conversion.unitConversion.to]
        ELSE Undefined]

processConversionRules(conversions) ==
    [i \in 1..Len(conversions) |-> processConversionRule(conversions[i])]

(* The same rule as convertData reads it: name, data type and byte order   *)
(* as strings and the start register as an integer (a validated rule has   *)
(* all four), and no wordSwap.                                             *)
decoderRule(rule) ==
    [name |-> Text(rule.name),
     startRegister |-> IF IsInt(rule.startRegister) THEN Small(rule.startRegister)
                       ELSE 0,
     dataType |-> Text(rule.dataType), byteOrder |-> Text(rule.byteOrder),
     wordSwap |-> Undefined, scaleFactor |-> rule.scaleFactor,
     offset |-> rule.offset, decimalPlaces |-> rule.decimalPlaces,
     bitMask |-> rule.bitMask, bitPosition |-> rule.bitPosition,
     bitLength |-> rule.bitLength, validation |-> rule.validation,
     unitConversion |-> rule.unitConversion]

decoderRules(processedRules) ==
    [i \in 1..Len(processedRules) |-> decoderRule(processedRules[i])]

validInputSources == {"data", "values", "registers", "custom_path"}
validOutputFormats == {"individual_fields", "conversion_object", "both"}
validErrorHandling == {"stop_on_error", "skip_invalid", "default_values"}

(* validateNodeParameters; conversions is an array, which is truthy.       *)
validateNodeParameters(params) ==
    ValidationResult(
        push(params.inputSource = "", "Input source is required")
        \o push(params.outputFormat = "", "Output format is required")
        \o push(params.errorHandling = "", "Error handling is required")
        \o push(params.inputSource # "" /\ params.inputSource \notin validInputSources,
                "Invalid input source. Must be one of: data, values, registers, custom_path")
        \o push(params.outputFormat # "" /\ params.outputFormat \notin validOutputFormats,
                "Invalid output format. Must be one of: individual_fields, conversion_object, both")
        \o push(params.errorHandling # "" /\ params.errorHandling \notin validErrorHandling,
                "Invalid error handling. Must be one of: stop_on_error, skip_invalid, default_values")
        \o push(params.inputSource = "custom_path" /\ params.customPath = "",
                "Custom path is required when input source is custom_path"),
        <<>>)

(* createErrorMessage                                                      *)
RECURSIVE bullets(_)
bullets(list) ==
    IF Len(list) = 0 THEN "" ELSE "- " \o list[1] \o "\n" \o bullets(Tail(list))

createErrorMessage(validationResult, context) ==
    context \o " validation failed:\n"
    \o (IF Len(validationResult.errors) > 0
        THEN "\nErrors:\n" \o bullets(validationResult.errors) ELSE "")
    \o (IF Len(validationResult.warnings) > 0
        THEN "\nWarnings:\n" \o bullets(validationResult.warnings) ELSE "")

(* The registers validateInputData looks at, or an error; the json of an   *)
(* item is an object, never an array, and a custom path is a single key.   *)
inputRegisters(data, inputSource, customPath) ==
    CASE inputSource = "data" ->
            IF Truthy(get(data, "data"))
            THEN Return(IF get(data, "data").t = "array" THEN get(data, "data").a
                        ELSE <<get(data, "data")>>)
            ELSE Throw("Expected array or object with data property")
      [] inputSource = "values" -> Throw("Expected array of values")
      [] inputSource = "registers" ->
            IF Truthy(get(data, "registers"))
            THEN Return(IF get(data, "registers").t = "array"
                        THEN get(data, "registers").a
                        ELSE <<get(data, "registers")>>)
            ELSE Throw("Expected array or object with registers property")
      [] inputSource = "custom_path" ->
            IF customPath = ""
            THEN Throw("Custom path is required when using custom_path input source")
            ELSE IF get(data, customPath).t = "array"
            THEN Return(get(data, customPath).a)
            ELSE IF IsNumber(get(data, customPath))
            THEN Return(<<get(data, customPath)>>)
            ELSE Throw("Custom path '" \o customPath
                       \o "' does not contain valid register data")
      [] OTHER -> Throw("Unsupported input source: " \o inputSource)

notNumber(reg) == ~IsNumber(reg)

texts(list) == [i \in 1..Len(list) |-> Text(list[i])]

nonNumericErrors(nonNumeric) ==
    push(Len(nonNumeric) > 0,
         "Non-numeric values found in register data: "
         \o join(texts(slice(nonNumeric, 0, 5)), ", ")
         \o (IF Len(nonNumeric) > 5 THEN "..." ELSE ""))

inputChecked(found) ==
    IF found.threw THEN ValidationResult(<<found.error.s>>, <<>>)
    ELSE ValidationResult(
            nonNumericErrors(SelectSeq(found.result, notNumber)),
            push(Len(found.result) = 0, "No register data found"))

validateInputData(data, inputSource, customPath) ==
    inputChecked(inputRegisters(data, inputSource, customPath))

(* extractRegisters of the node.                                           *)
nodeExtractRegisters(inputData, params) ==
    CASE params.inputSource \in {"data", "registers"} ->
            IF get(inputData, params.inputSource).t = "array"
            THEN get(inputData, params.inputSource).a
            ELSE IF IsNumber(get(inputData, params.inputSource))
            THEN <<get(inputData, params.inputSource)>>
            ELSE <<>>
      [] params.inputSource = "custom_path" /\ params.customPath # "" ->
            IF get(inputData, params.customPath).t = "array"
            THEN get(inputData, params.customPath).a
            ELSE IF IsNumber(get(inputData, params.customPath))
            THEN <<get(inputData, params.customPath)>>
            ELSE <<>>
      [] OTHER -> <<>>

(* getDefaultValue that is 0 for every data type.                          *)
getDefaultValue_AlwaysZero(dataType) == I(0)

getDefaultValue(dataType) ==
    CASE dataType \in {"int16", "uint16", "int32", "uint32", "float32", "scaled"} ->
            I(0)
      [] dataType = "bitfield" -> Bool(FALSE)
      [] dataType = "bcd" -> I(0)
      [] OTHER -> Null

(* handleConversionErrors: the loop over the results from the index-th on, *)
(* validResults being what it has kept so far.                             *)
RECURSIVE handleConversionErrorsFrom(_, _, _, _, _)
handleConversionErrorsFrom(conversionResults, errorHandling, item, index, kept) ==
    IF index > Len(conversionResults) THEN Return(kept)
    ELSE IF conversionResults[index].valid
    THEN handleConversionErrorsFrom(conversionResults, errorHandling, item, index + 1,
                                    Append(kept, conversionResults[index]))
    ELSE IF errorHandling = "stop_on_error"
    THEN Throw("Conversion error in item " \o ToString(item) \o ": "
               \o Text(conversionResults[index].error))
    ELSE IF errorHandling = "default_values"
    THEN handleConversionErrorsFrom(conversionResults, errorHandling, item, index + 1,
            Append(kept,
                   [conversionResults[index] EXCEPT
                       !.value = getDefaultValue(conversionResults[index].dataType),
                       !.valid = TRUE, !.error = Undefined]))
    ELSE handleConversionErrorsFrom(conversionResults, errorHandling, item, index + 1,
                                    kept)

handleConversionErrors(conversionResults, errorHandling, item) ==
    handleConversionErrorsFrom(conversionResults, errorHandling, item, 1, <<>>)

(* formatOutput.  The individual fields, result by result.                 *)
metadataField(outputData, result, addMetadata) ==
    IF addMetadata
    THEN set(outputData, result.name \o "_metadata", result.metadata)
    ELSE outputData

RECURSIVE individualFields(_, _, _, _)
individualFields(outputData, validList, addMetadata, index) ==
    IF index > Len(validList) THEN outputData
    ELSE individualFields(
            metadataField(set(outputData, validList[index].name, validList[index].value),
                          validList[index], addMetadata),
            validList, addMetadata, index + 1)

RECURSIVE conversionObject(_, _, _, _)
conversionObject(conversions, validList, addMetadata, index) ==
    IF index > Len(validList) THEN conversions
    ELSE conversionObject(
            set(conversions, validList[index].name,
                [value |-> validList[index].value,
                 originalValue |-> validList[index].originalValue,
                 dataType |-> validList[index].dataType,
                 valid |-> validList[index].valid,
                 metadata |-> IF addMetadata THEN validList[index].metadata
                              ELSE Undefined]),
            validList, addMetadata, index + 1)

withConversions(outputData, validList, params) ==
    IF params.outputFormat \in {"conversion_object", "both"}
    THEN set(outputData, "conversions",
             conversionObject(<<>>, validList, params.addMetadata, 1))
    ELSE outputData

withFields(outputData, validList, params) ==
    IF params.outputFormat \in {"individual_fields", "both"}
    THEN withConversions(individualFields(outputData, validList, params.addMetadata, 1),
                         validList, params)
    ELSE withConversions(outputData, validList, params)

formatOutput(validList, params, originalData) ==
    withFields(IF params.addTimestamp
               THEN set(originalData, "timestamp", Str("toISOString()"))
               ELSE originalData,
               validList, params)

----------------------------------------------------------------------------
(* Actions.  convertMultiple is rules.map(rule => convertData(registers,   *)
(* rule)): the callback runs once per rule, in order, and an error it      *)
(* raises ends the map without a result.                                   *)

(* A callback that drops an invalid result instead of keeping it.          *)
Collect_DropInvalid(call) ==
    IF call.threw
    THEN /\ pc' = "threw"
         /\ results' = <<>>
    ELSE /\ pc' = IF call.result.valid THEN pc ELSE "done"
         /\ results' = IF call.result.valid
                       THEN Append(results, call.result) ELSE results

Collect(call) ==
    IF call.threw
    THEN /\ pc' = "threw"
         /\ results' = <<>>
    ELSE /\ pc' = pc
         /\ results' = Append(results, call.result)

MapCallback ==
    /\ pc = "map"
    /\ Len(results) < Len(rules)
    /\ Collect(convertData(registers, rules[Len(results) + 1]))
    /\ UNCHANGED <<registers, rules, originalInput, quick, nodeVars, otherVars>>

MapReturn ==
    /\ pc = "map"
    /\ Len(results) = Len(rules)
    /\ pc' = "done"
    /\ UNCHANGED <<registers, rules, results, originalInput, quick, nodeVars, otherVars>>

convertMultiple == MapCallback \/ MapReturn

(* QuickConvert.convert(input, {autoDetect: true})                         *)
QuickConvert ==
    /\ quick = Undefined
    /\ quick' = convert(originalInput)
    /\ UNCHANGED <<registers, rules, results, pc, originalInput, nodeVars, otherVars>>

(* executeQuickMode(context, item, itemIndex) with quickConvertType 'bcd'.  *)
ExecuteQuickMode ==
    /\ convertedData = Undefined
    /\ parameters # Undefined
    /\ parameters.quickConvertType \in {"bcd", "double"}
    /\ convertedData' = executeQuickMode(parameters, originalInput)
    /\ UNCHANGED <<registers, rules, results, pc, originalInput, quick, parameters,
                   rulesValidation, items, itemIndex, returnData, validResults,
                   thrown, unitValue, deviceVars>>

(* A call IndustrialUnits.convert(value, fromUnit, toUnit) returns or      *)
(* raises.                                                                 *)
Convert ==
    /\ unitValue # Undefined
    /\ unitValue.outcome = Undefined
    /\ unitValue' = [unitValue EXCEPT
                        !.outcome = unitConvert(unitValue.value, unitValue.fromUnit,
                                                unitValue.toUnit)]
    /\ UNCHANGED <<registers, rules, results, pc, originalInput, quick, nodeVars,
                   convertedData, deviceVars>>

(* ModbusDataConverter.execute up to the loop over the items: the node    *)
(* parameters are validated, the rules built and validated, and a failed   *)
(* validation raises a NodeOperationError.                                 *)

(* The rule validation lets nothing through unless the policy is           *)
(* stop_on_error.                                                          *)
rejects_OnlyWhenStopping(validation, errorHandling) ==
    ~validation.valid /\ errorHandling = "stop_on_error"

(* if (!rulesValidation.valid) throw                                       *)
rejects(validation, errorHandling) == ~validation.valid

rulesDecided(processedRules, validation) ==
    /\ rulesValidation' = validation
    /\ IF rejects(validation, parameters.errorHandling)
       THEN /\ pc' = "threw"
            /\ thrown' = Str(createErrorMessage(validation, "Conversion rules"))
            /\ UNCHANGED rules
       ELSE /\ pc' = "loop"
            /\ rules' = decoderRules(processedRules)
            /\ UNCHANGED thrown

rulesChecked(processedRules) ==
    rulesDecided(processedRules, validateConversionRules(processedRules))

prepared(parameterValidation) ==
    IF ~parameterValidation.valid
    THEN /\ pc' = "threw"
         /\ thrown' = Str(createErrorMessage(parameterValidation, "Node parameters"))
         /\ UNCHANGED <<rules, rulesValidation>>
    ELSE rulesChecked(processConversionRules(parameters.conversions))

Prepare ==
    /\ pc = "start"
    /\ prepared(validateNodeParameters(parameters))
    /\ UNCHANGED <<registers, results, originalInput, quick, parameters, items,
                   itemIndex, returnData, validResults, otherVars>>

(* The head of an iteration: the input of the item is validated and its    *)
(* registers are extracted for convertMultiple.                            *)
itemStarted(json, inputValidation) ==
    IF ~inputValidation.valid /\ parameters.errorHandling = "stop_on_error"
    THEN /\ pc' = "threw"
         /\ thrown' = Str(createErrorMessage(inputValidation,
                            "Input data for item " \o ToString(itemIndex)))
         /\ UNCHANGED <<registers, results, originalInput, itemIndex>>
    ELSE IF ~inputValidation.valid /\ parameters.errorHandling = "skip_invalid"
    THEN /\ itemIndex' = itemIndex + 1
         /\ UNCHANGED <<pc, thrown, registers, results, originalInput>>
    ELSE /\ registers' = nodeExtractRegisters(json, parameters)
         /\ originalInput' = json
         /\ results' = <<>>
         /\ pc' = "map"
         /\ UNCHANGED <<itemIndex, thrown>>

ItemStart ==
    /\ pc = "loop"
    /\ itemIndex < Len(items)
    /\ itemStarted(items[itemIndex + 1].json,
                   validateInputData(items[itemIndex + 1].json,
                                     parameters.inputSource, parameters.customPath))
    /\ UNCHANGED <<rules, quick, parameters, rulesValidation, items, returnData,
                   validResults, otherVars>>

(* The rest of the iteration: the error policy, the output of the item,    *)
(* and the catch block, which raises again under stop_on_error only.       *)
itemFinished(handled) ==
    /\ validResults' = handled
    /\ IF handled.threw
       THEN IF parameters.errorHandling = "stop_on_error"
            THEN /\ pc' = "threw"
                 /\ thrown' = handled.error
                 /\ UNCHANGED <<itemIndex, returnData>>
            ELSE /\ pc' = "loop"
                 /\ itemIndex' = itemIndex + 1
                 /\ UNCHANGED <<returnData, thrown>>
       ELSE /\ returnData' =
                  Append(returnData,
                         [json |-> formatOutput(handled.result, parameters,
                                                originalInput),
                          pairedItem |-> [item |-> itemIndex]])
            /\ itemIndex' = itemIndex + 1
            /\ pc' = "loop"
            /\ UNCHANGED thrown

(* An iteration whose error policy writes the default values into the      *)
(* results of the pass themselves.                                         *)
ItemFinish_InPlace ==
    /\ pc = "done"
    /\ itemIndex < Len(items)
    /\ itemFinished(handleConversionErrors(results, parameters.errorHandling,
                                           itemIndex))
    /\ results' =
          [i \in 1..Len(results) |->
              IF results[i].valid \/ parameters.errorHandling # "default_values"
              THEN results[i]
              ELSE [results[i] EXCEPT
                       !.value = getDefaultValue(results[i].dataType),
                       !.valid = TRUE, !.error = Undefined]]
    /\ UNCHANGED <<registers, rules, originalInput, quick, parameters,
                   rulesValidation, items, otherVars>>

ItemFinish ==
    /\ pc = "done"
    /\ itemIndex < Len(items)
    /\ itemFinished(handleConversionErrors(results, parameters.errorHandling,
                                           itemIndex))
    /\ UNCHANGED <<registers, rules, results, originalInput, quick, parameters,
                   rulesValidation, items, otherVars>>

(* return [returnData]                                                     *)
ExecuteReturn ==
    /\ pc = "loop"
    /\ itemIndex = Len(items)
    /\ pc' = "returned"
    /\ UNCHANGED <<registers, rules, results, originalInput, quick, nodeVars,
                   otherVars>>

execute == Prepare \/ ItemStart \/ convertMultiple \/ ItemFinish \/ ExecuteReturn

(* handleConversionErrors(results, errorHandling, itemIndex, node) on the  *)
(* results of a conversion pass.                                           *)
HandleConversionErrors ==
    /\ pc = "done"
    /\ items = <<>>
    /\ validResults = Undefined
    /\ validResults' = handleConversionErrors(results, parameters.errorHandling,
                                              itemIndex)
    /\ UNCHANGED <<registers, rules, results, pc, originalInput, quick, parameters,
                   rulesValidation, items, itemIndex, returnData, thrown, otherVars>>

----------------------------------------------------------------------------
(* Inputs.  A rule as processConversionRules builds it: every optional     *)
(* field that is not configured is undefined.                              *)

Rule(name, startRegister, dataType, byteOrder) ==
    [name |-> name, startRegister |-> startRegister, dataType |-> dataType,
     byteOrder |-> byteOrder, wordSwap |-> Undefined, scaleFactor |-> Undefined,
     offset |-> Undefined, decimalPlaces |-> Undefined, bitMask |-> Undefined,
     bitPosition |-> Undefined, bitLength |-> Undefined, validation |-> Undefined,
     unitConversion |-> Undefined]

Validation(min, max) ==
    [t |-> "object", enabled |-> TRUE, min |-> min, max |-> max, allowNaN |-> Undefined]

UnitConversion(from, to) == [t |-> "object", from |-> from, to |-> to]

byteOrders == {"big_endian", "little_endian"}

(* The output record of the Modbus read that carries the registers.        *)
ModbusOutput(words) ==
    [functionCode |-> Str("FC3"), address |-> I(100), quantity |-> I(Len(words)),
     data |-> Array([i \in 1..Len(words) |-> I(words[i])])]

SeqsUpTo(S, n) == UNION {[1..k -> S] : k \in 0..n}

(* No node execution, quick-mode conversion or catalog lookup under way.   *)
NodeIdle ==
    /\ parameters = Undefined
    /\ rulesValidation = Undefined
    /\ items = <<>>
    /\ itemIndex = 0
    /\ returnData = <<>>
    /\ validResults = Undefined
    /\ thrown = Undefined

DeviceIdle ==
    /\ trigger = Undefined
    /\ modbus = Undefined

OtherIdle ==
    /\ convertedData = Undefined
    /\ unitValue = Undefined
    /\ DeviceIdle

(* The state before a conversion pass over input in, [words, rules].       *)
Start(in) ==
    /\ originalInput = ModbusOutput(in.words)
    /\ registers = extractRegisters(ModbusOutput(in.words))
    /\ rules = in.rules
    /\ results = <<>>
    /\ pc = "map"
    /\ quick = Undefined
    /\ NodeIdle
    /\ OtherIdle

(* Batches: every snapshot of up to MaxLen registers against every list of *)
(* up to MaxRules rules, among them a window beyond the snapshot, a range  *)
(* check that fails, an unsupported data type and a rounding that raises.  *)
MaxLen == 3
MaxRules == 3

batchWords == {4660, 40000}

batchRules ==
    {Rule("a", 0, "int16", "big_endian"),
     Rule("b", 1, "float32", "big_endian"),
     [Rule("c", 2, "uint16", "little_endian") EXCEPT
        !.validation = Validation(I(0), I(10000))],
     Rule("d", 0, "double", "big_endian"),
     [Rule("e", 1, "scaled", "big_endian") EXCEPT
        !.scaleFactor = I(10), !.decimalPlaces = I(101)],
     [Rule("f", 1, "int16", "big_endian") EXCEPT
        !.unitConversion = UnitConversion("celsius", "fahrenheit"),
        !.decimalPlaces = I(1)]}

batchInputs ==
    {[words |-> w, rules |-> r] :
        w \in SeqsUpTo(batchWords, MaxLen), r \in SeqsUpTo(batchRules, MaxRules)}

Init == \E in \in batchInputs : Start(in)
Next == convertMultiple
Spec == Init /\ [][Next]_vars

(* Single registers: every 16-bit word under a one-register decoder, in   *)
(* both byte orders.                                                       *)
words16 == 0..Max16

wordInputs(dataType) ==
    {[words |-> <<w>>, rules |-> <<Rule("value", 0, dataType, b)>>] :
        w \in words16, b \in byteOrders}

InitInt16 == \E in \in wordInputs("int16") : Start(in)
NextInt16 == convertMultiple
SpecInt16 == InitInt16 /\ [][NextInt16]_vars

InitBcd == \E in \in wordInputs("bcd") : Start(in)
NextBcd == convertMultiple
SpecBcd == InitBcd /\ [][NextBcd]_vars

(* Bit fields: a rule that masks, rules that take bitLength bits from      *)
(* bitPosition up (one of them with bitLength left to its default) and a   *)
(* rule with neither, over every position and length the rule validation   *)
(* admits against sample words, and over every 16-bit word for one choice. *)
BitRule(name, bitMask, bitPosition, bitLength) ==
    [Rule(name, 0, "bitfield", "big_endian") EXCEPT
        !.bitMask = bitMask, !.bitPosition = bitPosition, !.bitLength = bitLength]

bitRules(m, p, len) ==
    <<BitRule("masked", m, I(p), I(len)),
      BitRule("field", Undefined, I(p), I(len)),
      BitRule("flag", Undefined, I(p), Undefined),
      BitRule("whole", Undefined, Undefined, I(len))>>

bitWords == {0, 1, 255, 256, 4660, 21845, 32767, 32768, 43690, 65280, 65534, 65535}
bitMasks == {I(0), I(1), I(255), I(4080), I(32768), I(65535), I(-1), Wide(1, 255)}

bitInputs ==
    {[words |-> <<w>>, rules |-> bitRules(m, p, len)] :
        w \in bitWords, m \in bitMasks, p \in 0..15, len \in 1..16}

bitSweep == {[words |-> <<w>>, rules |-> bitRules(I(4080), 4, 4)] : w \in words16}

InitBitfield ==
    \/ \E in \in bitInputs : Start(in)
    \/ \E in \in bitSweep : Start(in)
NextBitfield == convertMultiple
SpecBitfield == InitBitfield /\ [][NextBitfield]_vars

(* Two-register windows: pairs of words around the ends and the middle of  *)
(* the 16-bit range, and a few others, each decoded as int32, as uint32    *)
(* and as float32 under one byte order and word swap setting, every        *)
(* setting in turn.                                                        *)
WordSpread == 1

pairWords ==
    (0..WordSpread) \cup ((MaxInt16 - WordSpread)..(MaxInt16 + 1 + WordSpread))
    \cup ((Max16 - WordSpread)..Max16)
    \cup {255, 4660, 16968, 22136, 32640, 41943, 65280}

wordSwaps == {Undefined, Bool(FALSE), Bool(TRUE)}

pairRules(b, ws) ==
    <<[Rule("signed", 0, "int32", b) EXCEPT !.wordSwap = ws],
      [Rule("unsigned", 0, "uint32", b) EXCEPT !.wordSwap = ws],
      [Rule("float", 0, "float32", b) EXCEPT !.wordSwap = ws]>>

pairInputs ==
    {[words |-> <<r0, r1>>, rules |-> pairRules(b, ws)] :
        r0 \in pairWords, r1 \in pairWords, b \in byteOrders, ws \in wordSwaps}

InitPair == \E in \in pairInputs : Start(in)
NextPair == convertMultiple
SpecPair == InitPair /\ [][NextPair]_vars

(* The documented temperature reading and other snapshots, decoded by a    *)
(* float32 rule with and without the celsius to fahrenheit conversion and  *)
(* by the auto-detect path.                                                *)
quickWords ==
    {<<>>, <<500>>, <<1234>>, <<40000>>, <<16968, 41943, 7>>}
    \cup {<<hi, lo>> : hi \in {16256, 16827, 16968, 17174, 17530, 17948, 49736,
                               32640, 32704},
                       lo \in {0, 39322, 41943}}

quickRules ==
    {Rule("temperature", 0, "float32", "big_endian"),
     [Rule("temperature", 0, "float32", "big_endian") EXCEPT
        !.unitConversion = UnitConversion("celsius", "fahrenheit")]}

quickInputs == {[words |-> w, rules |-> <<r>>] : w \in quickWords, r \in quickRules}

InitQuick == \E in \in quickInputs : Start(in)
NextQuick == convertMultiple \/ QuickConvert
SpecQuick == InitQuick /\ [][NextQuick]_vars

(* The quick mode, type 'bcd': every 16-bit word, plain or scaled by 10    *)
(* with the metadata, and an input without registers.                      *)
QuickParameters(quickConvertType, enableScaling, includeMetadata) ==
    [quickConvertType |-> quickConvertType, quickByteOrder |-> "BE",
     wordSwap |-> FALSE, enableScaling |-> enableScaling,
     scaleFactorValue |-> I(10), includeMetadata |-> includeMetadata]

quickBcdInputs == {<<>>} \cup {<<w>> : w \in words16}

InitQuickBcd ==
    \E words \in quickBcdInputs, scaled \in BOOLEAN :
        /\ originalInput = ModbusOutput(words)
        /\ registers = extractRegisters(ModbusOutput(words))
        /\ rules = <<>>
        /\ results = <<>>
        /\ pc = "quick"
        /\ quick = Undefined
        /\ parameters = QuickParameters("bcd", scaled, scaled)
        /\ rulesValidation = Undefined
        /\ items = <<>>
        /\ itemIndex = 0
        /\ returnData = <<>>
        /\ validResults = Undefined
        /\ thrown = Undefined
        /\ OtherIdle
NextQuickBcd == ExecuteQuickMode
SpecQuickBcd == InitQuickBcd /\ [][NextQuickBcd]_vars

(* Units: a register decoded as uint16 by a rule with a unit conversion,   *)
(* and the catalog asked for the same conversion of the same value, for    *)
(* every pair of the units the catalog and the Decoder name, and a unit    *)
(* neither knows.                                                          *)
catalogUnits ==
    {CONVERSIONS[i].from : i \in 1..Len(CONVERSIONS)}
    \cup {CONVERSIONS[i].to : i \in 1..Len(CONVERSIONS)}
unitNames == catalogUnits \cup {"hp", "kw", "btu", "furlong"}
unitWords == {0, 1, 100, 500}

UnitRule(from, to) ==
    [Rule("power_total", 0, "uint16", "big_endian") EXCEPT
        !.unitConversion = UnitConversion(from, to)]

InitUnits ==
    \E w \in unitWords, from \in unitNames, to \in unitNames :
        /\ originalInput = ModbusOutput(<<w>>)
        /\ registers = extractRegisters(ModbusOutput(<<w>>))
        /\ rules = <<UnitRule(from, to)>>
        /\ results = <<>>
        /\ pc = "map"
        /\ quick = Undefined
        /\ NodeIdle
        /\ convertedData = Undefined
        /\ unitValue = [value |-> I(w), fromUnit |-> from, toUnit |-> to,
                        outcome |-> Undefined]
        /\ DeviceIdle
NextUnits == convertMultiple \/ Convert
SpecUnits == InitUnits /\ [][NextUnits]_vars

(* Range checks: a register decoded as uint16, converted from celsius to   *)
(* fahrenheit or to kelvin or not at all, rounded to 0 or 1 places or not  *)
(* at all, under every choice of bounds from 50 and 283 and with the check *)
(* disabled or absent; and a float32 pair that is a number, infinite or    *)
(* NaN under each setting of allowNaN.                                     *)
rangeWords == {0, 10, 49, 50, 100, 283, 300}
rangeBounds == {Undefined, I(50), I(283)}
rangeChecks ==
    {Undefined, [Validation(I(50), I(283)) EXCEPT !.enabled = FALSE]}
    \cup {Validation(min, max) : min \in rangeBounds, max \in rangeBounds}
rangeUnits ==
    {Undefined, UnitConversion("celsius", "fahrenheit"),
     UnitConversion("celsius", "kelvin")}
rangeRules ==
    {[Rule("temperature", 0, "uint16", "big_endian") EXCEPT
        !.unitConversion = u, !.decimalPlaces = p, !.validation = v] :
        u \in rangeUnits, p \in {Undefined, I(0), I(1)}, v \in rangeChecks}
nanWords == {<<16968, 41943>>, <<32640, 0>>, <<32704, 0>>}
nanRules ==
    {[Rule("temperature", 0, "float32", "big_endian") EXCEPT
        !.validation = [Validation(min, max) EXCEPT !.allowNaN = a, !.enabled = e]] :
        min \in {Undefined, I(50)}, max \in {Undefined, I(283)},
        a \in {Undefined, Bool(FALSE), Bool(TRUE)}, e \in BOOLEAN}
rangeInputs ==
    {[words |-> <<w>>, rules |-> <<r>>] : w \in rangeWords, r \in rangeRules}
nanInputs == {[words |-> w, rules |-> <<r>>] : w \in nanWords, r \in nanRules}

InitValidate ==
    \/ \E in \in rangeInputs : Start(in)
    \/ \E in \in nanInputs : Start(in)
NextValidate == convertMultiple
SpecValidate == InitValidate /\ [][NextValidate]_vars

(* The node: the parameters of an execution, and a conversion as it is     *)
(* configured, with every optional field unset.                            *)
NodeParameters(conversions, outputFormat, addMetadata, errorHandling) ==
    [conversions |-> conversions, inputSource |-> "data", customPath |-> "",
     outputFormat |-> outputFormat, addTimestamp |-> FALSE,
     addMetadata |-> addMetadata, errorHandling |-> errorHandling,
     performanceMode |-> FALSE]

Configured(name, startRegister, dataType) ==
    [name |-> name, startRegister |-> startRegister, dataType |-> dataType,
     byteOrder |-> Str("big_endian"), scaleFactor |-> Undefined,
     offset |-> Undefined, decimalPlaces |-> Undefined, bitMask |-> Undefined,
     bitPosition |-> Undefined, bitLength |-> Undefined,
     enableValidation |-> FALSE, validation |-> Undefined,
     enableUnitConversion |-> FALSE, unitConversion |-> Undefined]

Limits(min, max) == [min |-> min, max |-> max, allowNaN |-> Bool(FALSE)]

Item(words) == [json |-> ModbusOutput(words)]

(* Conversions that are in order, among them two whose names differ in     *)
(* case and blanks only, windows that overlap, a range check that readings *)
(* fail, and the two settings that are warned about.                       *)
soundConversions ==
    {Configured(Str("Temp"), I(0), Str("int16")),
     Configured(Str(" temp "), I(1), Str("int16")),
     Configured(Str("flow"), I(0), Str("float32")),
     Configured(Str("level"), I(2), Str("scaled")),
     [Configured(Str("same"), I(3), Str("uint16")) EXCEPT
        !.enableUnitConversion = TRUE,
        !.unitConversion = UnitConversion("celsius", "celsius")],
     [Configured(Str("checked"), I(0), Str("uint16")) EXCEPT
        !.enableValidation = TRUE, !.validation = Limits(I(50), I(283))],
     [Configured(Str("swapped"), I(5), Str("uint16")) EXCEPT
        !.validation = Limits(I(10), I(5))],
     [Configured(Str("flag"), I(1), Str("bitfield")) EXCEPT !.bitPosition = I(15),
                                                          !.bitLength = I(16)],
     Configured(Str("span"), I(1), Str("int32"))}

(* Three windows of which the middle one meets both others.                *)
chained ==
    {Configured(Str("Temp"), I(0), Str("int16")),
     Configured(Str("flow"), I(0), Str("float32")),
     Configured(Str("span"), I(1), Str("int32"))}

(* Conversions of which each breaks one requirement.                       *)
brokenConversions ==
    {[Configured(Str("range"), I(0), Str("int16")) EXCEPT
        !.enableValidation = TRUE, !.validation = Limits(I(10), I(5))],
     [Configured(Str("bit"), I(0), Str("bitfield")) EXCEPT !.bitPosition = I(16)],
     [Configured(Str("bit"), I(0), Str("bitfield")) EXCEPT !.bitPosition = I(-1)],
     [Configured(Str("bit"), I(0), Str("bitfield")) EXCEPT !.bitPosition = I(0),
                                                         !.bitLength = I(0)],
     [Configured(Str("bit"), I(0), Str("bitfield")) EXCEPT !.bitMask = I(255),
                                                         !.bitLength = I(17)],
     Configured(Str("bit"), I(0), Str("bitfield")),
     [Configured(Str("places"), I(0), Str("int16")) EXCEPT !.decimalPlaces = I(11)],
     [Configured(Str("places"), I(0), Str("int16")) EXCEPT !.decimalPlaces = I(-1)],
     Configured(Str("start"), I(-1), Str("int16")),
     Configured(Str("start"), Undefined, Str("int16")),
     Configured(Str("type"), I(0), Undefined),
     Configured(Str("type"), I(0), Str("double")),
     Configured(Str(""), I(4), Str("int16")),
     Configured(Str("  "), I(4), Str("int16")),
     Configured(Undefined, I(4), Str("int16")),
     [Configured(Str("order"), I(4), Str("int16")) EXCEPT !.byteOrder = Undefined],
     [Configured(Str("unit"), I(4), Str("int16")) EXCEPT
        !.enableUnitConversion = TRUE,
        !.unitConversion = UnitConversion("celsius", "")]}

MaxConversions == 2

conversionLists == SeqsUpTo(soundConversions \cup brokenConversions, MaxConversions)

itemLists ==
    {<<>>,
     <<Item(<<100, 16968, 41943>>)>>,
     <<Item(<<4660>>), [json |-> [functionCode |-> Str("FC3")]],
       Item(<<300, 0, 0, 7>>)>>}

outputSettings ==
    {[outputFormat |-> "both", addMetadata |-> TRUE],
     [outputFormat |-> "individual_fields", addMetadata |-> FALSE]}

Execution(params, itemList) ==
    /\ parameters = params
    /\ items = itemList
    /\ itemIndex = 0
    /\ returnData = <<>>
    /\ rulesValidation = Undefined
    /\ validResults = Undefined
    /\ thrown = Undefined
    /\ pc = "start"
    /\ registers = <<>>
    /\ rules = <<>>
    /\ results = <<>>
    /\ originalInput = Undefined
    /\ quick = Undefined
    /\ OtherIdle

(* Rule lists that pass the validation, for every output setting.         *)
passingLists ==
    {<<Configured(Str("Temp"), I(0), Str("int16"))>>,
     <<[Configured(Str("checked"), I(0), Str("uint16")) EXCEPT
          !.enableValidation = TRUE, !.validation = Limits(I(50), I(283))],
       Configured(Str("flow"), I(1), Str("float32"))>>}

InitExecute ==
    \/ \E conversions \in conversionLists, errorHandling \in validErrorHandling :
          Execution(NodeParameters(conversions, "both", TRUE, errorHandling),
                    <<Item(<<4660>>), [json |-> [functionCode |-> Str("FC3")]],
                      Item(<<300, 0, 0, 7>>)>>)
    \/ \E conversions \in passingLists, out \in outputSettings,
          errorHandling \in validErrorHandling, itemList \in itemLists :
          Execution(NodeParameters(conversions, out.outputFormat, out.addMetadata,
                                   errorHandling), itemList)
    \/ \E a \in chained, b \in chained, c \in chained,
          errorHandling \in validErrorHandling :
          Execution(NodeParameters(<<a, b, c>>, "conversion_object", TRUE,
                                   errorHandling),
                    <<Item(<<100, 16968, 41943>>)>>)
    \/ \E errorHandling \in {"", "ignore"}, itemList \in itemLists :
          Execution(NodeParameters(<<Configured(Str("Temp"), I(0), Str("int16"))>>,
                                   "both", FALSE, errorHandling), itemList)
NextExecute == execute
SpecExecute == InitExecute /\ [][NextExecute]_vars

(* The error policy on its own: the results of a conversion pass, some of  *)
(* them invalid, among them a bit field and an unsupported data type,      *)
(* under each policy.                                                      *)
policyWords == {<<>>, <<4660>>, <<4660, 40000>>}

policyRules ==
    {Rule("a", 0, "int16", "big_endian"),
     Rule("b", 1, "float32", "big_endian"),
     BitRule("c", Undefined, I(0), Undefined),
     [BitRule("c", Undefined, I(0), Undefined) EXCEPT !.startRegister = 1],
     Rule("d", 0, "double", "big_endian"),
     Rule("e", 1, "bcd", "big_endian"),
     [Rule("f", 0, "uint16", "big_endian") EXCEPT
        !.validation = Validation(I(0), I(100))]}

InitPolicy ==
    \E words \in policyWords, ruleList \in SeqsUpTo(policyRules, MaxRules),
       errorHandling \in validErrorHandling :
        /\ originalInput = ModbusOutput(words)
        /\ registers = extractRegisters(ModbusOutput(words))
        /\ rules = ruleList
        /\ results = <<>>
        /\ pc = "map"
        /\ quick = Undefined
        /\ parameters = NodeParameters(<<>>, "both", FALSE, errorHandling)
        /\ rulesValidation = Undefined
        /\ items = <<>>
        /\ itemIndex = 0
        /\ returnData = <<>>
        /\ validResults = Undefined
        /\ thrown = Undefined
        /\ OtherIdle
NextPolicy == convertMultiple \/ HandleConversionErrors
SpecPolicy == InitPolicy /\ [][NextPolicy]_vars

----------------------------------------------------------------------------
(* Claims about a batch.                                                   *)

(* The register footprint the data model gives each data type.             *)
Footprint(dataType) == IF dataType \in {"int32", "uint32", "float32"} THEN 2 ELSE 1

(* The window of rule lies beyond the snapshot.                            *)
Beyond(rule) == Len(registers) < rule.startRegister + Footprint(rule.dataType)

NotEnough(required, available) ==
    Str("Not enough registers available. Required: " \o ToString(required)
        \o ", Available: " \o ToString(available))

NotEnoughMessages ==
    {NotEnough(q, a) : q \in 0..4, a \in -(MaxLen + 4)..(MaxLen + 4)}

Without(s, i) == SubSeq(s, 1, i - 1) \o SubSeq(s, i + 1, Len(s))

Alone(regs, rs) == [j \in 1..Len(rs) |-> convertData(regs, rs[j]).result]

(* C1: convertMultiple returns one result per rule, in rule order, the     *)
(* i-th carrying the name and data type of rule i and equal to what        *)
(* convertData returns for that rule alone; a rule whose window lies       *)
(* beyond the snapshot gives an invalid result, and the other results are  *)
(* those of the rule list without it.                                      *)
C1_OneResultPerRule ==
    /\ pc # "threw"
    /\ Len(results) <= Len(rules)
    /\ \A i \in 1..Len(results) :
          /\ results[i].name = rules[i].name
          /\ results[i].dataType = rules[i].dataType
          /\ Return(results[i]) = convertData(registers, rules[i])
    /\ pc = "done" =>
          /\ Len(results) = Len(rules)
          /\ \A i \in 1..Len(rules) :
                (rules[i].dataType \in supportedTypes /\ Beyond(rules[i])) =>
                    /\ ~results[i].valid
                    /\ Without(results, i) = Alone(registers, Without(rules, i))

(* Three rules, the second one beyond the snapshot and invalid, the first  *)
(* and the third valid.                                                    *)
C1_Witness ==
    /\ pc = "done"
    /\ Len(rules) = 3
    /\ Len(results) = 3
    /\ Beyond(rules[2]) /\ ~results[2].valid
    /\ results[2].error \in NotEnoughMessages
    /\ results[1].valid /\ results[3].valid

(* C2: a result is invalid with the not-enough-registers error, naming the *)
(* required count and the count left from startRegister, and with value    *)
(* and originalValue null, exactly when the snapshot is shorter than       *)
(* startRegister + footprint(dataType).                                    *)
C2_InsufficientIff ==
    \A i \in 1..Len(results) :
        rules[i].dataType \in supportedTypes =>
            IF Beyond(rules[i])
            THEN /\ ~results[i].valid
                 /\ results[i].error =
                        NotEnough(Footprint(rules[i].dataType),
                                  Len(registers) - rules[i].startRegister)
                 /\ results[i].value = Null
                 /\ results[i].originalValue = Null
            ELSE results[i].error \notin NotEnoughMessages

(* A two-register rule with one register left is refused, and a rule whose *)
(* window just fits is decoded.                                            *)
C2_Witness ==
    /\ pc = "done"
    /\ \E i \in 1..Len(results) :
          /\ Footprint(rules[i].dataType) = 2
          /\ Len(registers) = rules[i].startRegister + 1
          /\ results[i].error \in NotEnoughMessages
    /\ \E i \in 1..Len(results) :
          /\ Len(registers) = rules[i].startRegister + Footprint(rules[i].dataType)
          /\ results[i].valid

(* The rule asks for a rounding that toFixed refuses.                      *)
RoundingRaises(rule) ==
    /\ rule.decimalPlaces # Undefined
    /\ (Small(rule.decimalPlaces) < 0 \/ Small(rule.decimalPlaces) > 100)

(* The rule range-checks the raw word of an unsigned 16-bit decode.        *)
ChecksRawWord(rule) ==
    /\ rule.dataType = "uint16"
    /\ rule.validation # Undefined /\ rule.validation.enabled
    /\ rule.unitConversion = Undefined /\ rule.decimalPlaces = Undefined

OutOfRange(rule) ==
    LET w == Small(registers[rule.startRegister + 1])
    IN  \/ (rule.validation.min # Undefined /\ w < Small(rule.validation.min))
        \/ (rule.validation.max # Undefined /\ w > Small(rule.validation.max))

HasMessage(r) == r.error # Undefined /\ r.error.t = "string" /\ r.error.s # ""

(* C3: convertData never raises; a window beyond the snapshot, an          *)
(* unsupported data type, a failed range check and an error raised inside  *)
(* the decode each give a result with valid = false; and a result is       *)
(* invalid exactly when it carries a non-empty error message.              *)
C3_NeverRaises ==
    /\ pc # "threw"
    /\ \A i \in 1..Len(results) :
          /\ ~results[i].valid <=> HasMessage(results[i])
          /\ Beyond(rules[i]) => ~results[i].valid
          /\ rules[i].dataType \notin supportedTypes => ~results[i].valid
          /\ (~Beyond(rules[i]) /\ ChecksRawWord(rules[i]) /\ OutOfRange(rules[i]))
                => ~results[i].valid
          /\ (~Beyond(rules[i]) /\ rules[i].dataType \in supportedTypes
              /\ RoundingRaises(rules[i])) => ~results[i].valid

(* One batch with all four failures, and a valid result beside them.       *)
C3_Witness ==
    /\ pc = "done"
    /\ \E i \in 1..Len(results) :
          ~Beyond(rules[i]) /\ RoundingRaises(rules[i]) /\ HasMessage(results[i])
    /\ \E i \in 1..Len(results) :
          ~Beyond(rules[i]) /\ ChecksRawWord(rules[i]) /\ OutOfRange(rules[i])
    /\ \E i \in 1..Len(results) : results[i].valid

----------------------------------------------------------------------------
(* Claims about a two-register window.                                     *)

(* The two words of the window of rule, as the data model orders them:     *)
(* (first, second) is (r1, r0) under a word swap and (r0, r1) otherwise,   *)
(* and (high, low) is (first, second) for big_endian, (second, first)      *)
(* otherwise.                                                              *)
Word(rule, k) == Small(registers[rule.startRegister + 1 + k])
Swapped(rule) == rule.wordSwap = Bool(TRUE)
First(rule) == IF Swapped(rule) THEN Word(rule, 1) ELSE Word(rule, 0)
Second(rule) == IF Swapped(rule) THEN Word(rule, 0) ELSE Word(rule, 1)
High(rule) == IF rule.byteOrder = "big_endian" THEN First(rule) ELSE Second(rule)
Low(rule) == IF rule.byteOrder = "big_endian" THEN Second(rule) ELSE First(rule)

(* C4: the uint32 result is high * 65536 + low, within 0..4294967295, and  *)
(* the int32 result is that number less 4294967296 when it is above        *)
(* 2147483647 and that number otherwise, within -2147483648..2147483647.   *)
C4_Assemble32 ==
    \A i \in 1..Len(results) :
        /\ rules[i].dataType = "uint32" =>
              /\ results[i].value = Wide(High(rules[i]), Low(rules[i]))
              /\ results[i].value.h \in 0..Max16
              /\ results[i].value.l \in 0..Max16
        /\ rules[i].dataType = "int32" =>
              /\ results[i].value =
                    IF High(rules[i]) > MaxInt16
                    THEN Wide(High(rules[i]) - Two16, Low(rules[i]))
                    ELSE Wide(High(rules[i]), Low(rules[i]))
              /\ results[i].value.h \in -(MaxInt16 + 1)..MaxInt16
              /\ results[i].value.l \in 0..Max16

(* Swapped little-endian words that give a uint32 above 2147483647 and a   *)
(* negative int32.                                                         *)
C4_Witness ==
    /\ pc = "done"
    /\ \E i \in 1..Len(results) :
          /\ rules[i].dataType = "uint32"
          /\ Swapped(rules[i]) /\ rules[i].byteOrder = "little_endian"
          /\ Word(rules[i], 0) > MaxInt16 /\ Word(rules[i], 1) < Word(rules[i], 0)
          /\ results[i].valid /\ results[i].value.h > MaxInt16
    /\ \E i \in 1..Len(results) :
          /\ rules[i].dataType = "int32"
          /\ results[i].valid /\ results[i].value.h < 0

(* The four settings of byteOrder and wordSwap.                            *)
settings == {[byteOrder |-> b, wordSwap |-> ws] : b \in byteOrders, ws \in BOOLEAN}

(* The 32-bit assemblies of the window under setting x: the int32 and the  *)
(* uint32 values and the bytes float32 reads.                              *)
Assemblies(x) ==
    [int32 |-> convertInt32(registers, x.byteOrder, Bool(x.wordSwap)),
     uint32 |-> convertUint32(registers, x.byteOrder, Bool(x.wordSwap)),
     float32 |-> float32Buffer(registers, x.byteOrder, Bool(x.wordSwap))]

(* C5: two distinct words give four pairwise distinct 32-bit assemblies    *)
(* under the four settings of byteOrder and wordSwap, for int32, uint32    *)
(* and the float32 bit pattern.                                            *)
C5_FourDistinct ==
    (pc = "done" /\ registers[1] # registers[2]) =>
        \A x, y \in settings :
            x # y => /\ Assemblies(x).int32 # Assemblies(y).int32
                     /\ Assemblies(x).uint32 # Assemblies(y).uint32
                     /\ Assemblies(x).float32 # Assemblies(y).float32

----------------------------------------------------------------------------
(* Claims about the documented temperature reading.                        *)

(* A positive finite number in hundredths, rounded to the nearest.         *)
Hundredths(v) ==
    100 * (Num(v) \div Den(v))
    + (200 * (Num(v) % Den(v)) + Den(v)) \div (2 * Den(v))

(* v is a normal single in the binade [2^k, 2^(k+1)).                      *)
InBinade(v, k) ==
    v.t = "flt" /\ ~v.neg /\ v.man >= 8388608 /\ v.man < 16777216 /\ v.exp = k - 23

(* The snapshot [16968, 41943] under a float32, big_endian rule at         *)
(* startRegister 0.                                                        *)
Reading ==
    /\ registers = <<I(16968), I(41943)>>
    /\ Len(results) = 1
    /\ rules[1].dataType = "float32" /\ rules[1].byteOrder = "big_endian"
    /\ rules[1].startRegister = 0 /\ ~Truthy(rules[1].wordSwap)

ToFahrenheit(rule) ==
    rule.unitConversion = UnitConversion("celsius", "fahrenheit")

(* What the rule decodes the snapshot to is about value, a number in the   *)
(* binade [2^k, 2^(k+1)), and about fahrenheit after the celsius to        *)
(* fahrenheit conversion; auto-detect reports the value of the rule.       *)
ReadingIs(value, k, fahrenheit) ==
    /\ results[1].valid
    /\ rules[1].unitConversion = Undefined =>
          /\ InBinade(results[1].value, k)
          /\ Hundredths(results[1].value) = value
    /\ ToFahrenheit(rules[1]) => Hundredths(results[1].value) = fahrenheit
    /\ quick # Undefined =>
          /\ quick.success
          /\ quick.data.type = Str("float32")
          /\ quick.data.value = convertData(registers, autoRule("value", "float32")).result.value
          /\ rules[1].unitConversion = Undefined => quick.data.value = results[1].value
          /\ InBinade(quick.data.value, k)
          /\ Hundredths(quick.data.value) = value

----------------------------------------------------------------------------
(* Claims about the float32 bit pattern.                                   *)

(* Four bytes read as a big-endian 32-bit unsigned integer.                *)
BigEndian32(bytes) == Wide(bytes[1] * 256 + bytes[2], bytes[3] * 256 + bytes[4])

(* The IEEE-754 single whose pattern is the unsigned integer u: one sign   *)
(* bit, eight exponent bits, twenty-three fraction bits.                   *)
Single(u) ==
    LET sign == u.h \div 32768
        e == (u.h % 32768) \div 128
        f == (u.h % 128) * 65536 + u.l
    IN  IF e = 255 THEN (IF f = 0 THEN [t |-> "inf", neg |-> sign = 1] ELSE NaN)
        ELSE IF e = 0
        THEN [t |-> "flt", neg |-> sign = 1, man |-> f,
              exp |-> IF f = 0 THEN 0 ELSE -149]
        ELSE [t |-> "flt", neg |-> sign = 1, man |-> 8388608 + f, exp |-> e - 150]

(* C7: the four bytes float32 reads are, as a big-endian 32-bit integer,   *)
(* the uint32 result for the same window and settings, the high half in    *)
(* bytes 0-1 and the low half in bytes 2-3, and the float32 result is the  *)
(* single with that pattern; so for big_endian without a word swap the     *)
(* pattern is the two words in order.                                      *)
C7_PatternIsUint32 ==
    \A i, j \in 1..Len(results) :
        (/\ rules[i].dataType = "float32" /\ rules[j].dataType = "uint32"
         /\ rules[i].byteOrder = rules[j].byteOrder
         /\ rules[i].wordSwap = rules[j].wordSwap
         /\ rules[i].startRegister = rules[j].startRegister) =>
            /\ BigEndian32(float32Buffer(registers, rules[i].byteOrder,
                                         rules[i].wordSwap)) = results[j].value
            /\ results[i].value = Single(results[j].value)
            /\ (rules[i].byteOrder = "big_endian" /\ ~Swapped(rules[i])) =>
                  results[i].value = Single(Wide(Word(rules[i], 0), Word(rules[i], 1)))

(* The words 0x4248 and 0xA3D7 decoded in order, as a float32 and as the   *)
(* uint32 0x4248A3D7.                                                      *)
C7_Witness ==
    /\ pc = "done"
    /\ registers = <<I(16968), I(41943)>>
    /\ \E i, j \in 1..Len(results) :
          /\ rules[i].dataType = "float32" /\ rules[j].dataType = "uint32"
          /\ rules[i].byteOrder = "big_endian" /\ ~Swapped(rules[i])
          /\ results[j].value = Wide(16968, 41943)
          /\ results[i].valid
          /\ results[i].value = [t |-> "flt", neg |-> FALSE, man |-> 13149143, exp |-> -18]

----------------------------------------------------------------------------
(* Claims about a one-register window.                                     *)

(* C8: the int16 result of the word w is w - 65536 when w is above 32767   *)
(* and w otherwise, within -32768..32767, whatever the byte order.         *)
C8_Int16 ==
    \A i \in 1..Len(results) :
        rules[i].dataType = "int16" =>
            /\ results[i].value =
                  I(IF Word(rules[i], 0) > MaxInt16
                    THEN Word(rules[i], 0) - Two16 ELSE Word(rules[i], 0))
            /\ Small(results[i].value) \in -(MaxInt16 + 1)..MaxInt16
            /\ \A b \in byteOrders :
                  convertData(registers, [rules[i] EXCEPT !.byteOrder = b]).result.value
                      = results[i].value

(* The word 32768 decoded as -32768 under little_endian.                   *)
C8_Witness ==
    /\ pc = "done"
    /\ Len(results) = 1
    /\ rules[1].dataType = "int16" /\ rules[1].byteOrder = "little_endian"
    /\ registers = <<I(32768)>>
    /\ results[1].valid /\ results[1].value = I(-32768)

(* Bit k of the natural number n.                                          *)
Bit(n, k) == (n \div Pow2(k)) % 2

(* C9: with bitMask set the bitfield result is w AND bitMask, whatever     *)
(* bitPosition and bitLength are; otherwise with bitPosition p set and     *)
(* bitLength L it is floor(w / 2^p) mod 2^L, a boolean exactly when L = 1, *)
(* an unset bitLength counting as 1; otherwise it is w.                    *)
C9_Bitfield ==
    \A i \in 1..Len(results) :
        rules[i].dataType = "bitfield" =>
            IF rules[i].bitMask # Undefined
            THEN /\ IsInt(results[i].value)
                 /\ Small(results[i].value) \in 0..Max16
                 /\ \A k \in 0..15 :
                       Bit(Small(results[i].value), k)
                           = Bit(Word(rules[i], 0), k) * Bit(rules[i].bitMask.l, k)
            ELSE IF rules[i].bitPosition # Undefined
            THEN LET len == IF rules[i].bitLength = Undefined THEN 1
                            ELSE Small(rules[i].bitLength)
                     field == (Word(rules[i], 0) \div Pow2(Small(rules[i].bitPosition)))
                              % Pow2(len)
                 IN  results[i].value = IF len = 1 THEN Bool(field = 1) ELSE I(field)
            ELSE results[i].value = I(Word(rules[i], 0))

(* The word 0x1234 masked with 0x0FF0 to 0x0230, its bits 4..7 read as 3,  *)
(* its bit 4 as true, and the whole word.                                  *)
C9_Witness ==
    /\ pc = "done"
    /\ registers = <<I(4660)>>
    /\ Len(results) = 4
    /\ rules[1].bitMask = I(4080) /\ results[1].value = I(560)
    /\ rules[2].bitPosition = I(4) /\ rules[2].bitLength = I(4)
    /\ results[2].value = I(3)
    /\ rules[3].bitLength = Undefined /\ results[3].value = Bool(TRUE)
    /\ rules[4].bitPosition = Undefined /\ results[4].value = I(4660)

(* Nibble k of the word w, nibble 0 the least significant.                 *)
Nibble(w, k) == (w \div Pow2(4 * k)) % 16

(* C10: the bcd result of a word with nibbles n3 n2 n1 n0 is               *)
(* (n3 * 10 + n2) * 100 + (n1 * 10 + n0): 0x1234 gives 1234, 0 gives 0,    *)
(* and a word whose nibbles are all at most 9 gives the decimal number its *)
(* hexadecimal digits write, within 0..9999.                               *)
C10_Bcd ==
    \A i \in 1..Len(results) :
        rules[i].dataType = "bcd" =>
            LET w == Word(rules[i], 0)
            IN  /\ results[i].value =
                      I((Nibble(w, 3) * 10 + Nibble(w, 2)) * 100
                        + (Nibble(w, 1) * 10 + Nibble(w, 0)))
                /\ w = 4660 => results[i].value = I(1234)
                /\ w = 0 => results[i].value = I(0)
                /\ (\A k \in 0..3 : Nibble(w, k) <= 9) =>
                      /\ Small(results[i].value) \in 0..9999
                      /\ Small(results[i].value) =
                            Nibble(w, 3) * 1000 + Nibble(w, 2) * 100
                            + Nibble(w, 1) * 10 + Nibble(w, 0)

(* The word 0x1234 decoded to 1234.                                        *)
C10_Witness ==
    /\ pc = "done"
    /\ Len(results) = 1
    /\ rules[1].dataType = "bcd"
    /\ registers = <<I(4660)>>
    /\ results[1].valid /\ results[1].value = I(1234)

----------------------------------------------------------------------------
(* Claims about the quick mode.                                            *)

(* The word w has a nibble in 10..15.                                      *)
BadNibble(w) == \E k \in 0..3 : Nibble(w, k) > 9

(* What the rule-based decoder makes of the word as bcd.                   *)
RuleBcd(regs) == convertData(regs, Rule("value", 0, "bcd", "big_endian")).result.value

(* C11: the quick-mode convertBCD returns NaN for every 16-bit word with a *)
(* nibble in 10..15, and executeQuickMode then puts no value out; for a    *)
(* word whose nibbles are all at most 9 it returns the number the          *)
(* rule-based bcd decoder returns, and that is the value put out.          *)
C11_QuickBcd ==
    (pc = "quick" /\ Len(registers) = 1) =>
        /\ IF BadNibble(Small(registers[1]))
           THEN quickConvertBCD(registers[1]) = NaN
           ELSE quickConvertBCD(registers[1]) = RuleBcd(registers)
        /\ convertedData # Undefined =>
              /\ ~convertedData.threw
              /\ convertedData.result.output.value =
                    IF BadNibble(Small(registers[1])) THEN Undefined
                    ELSE IF parameters.enableScaling
                    THEN NumMul(RuleBcd(registers), I(10))
                    ELSE RuleBcd(registers)

(* The word 0x1234 put out as 1234, or the word 0x12A4 with no value.      *)
C11_Witness ==
    /\ convertedData # Undefined
    /\ ~parameters.enableScaling
    /\ \/ /\ registers = <<I(4660)>>
          /\ convertedData.result.output.value = I(1234)
       \/ /\ registers = <<I(4772)>>
          /\ convertedData.result.output.value = Undefined

----------------------------------------------------------------------------
(* Claims about units.                                                     *)

(* The Decoder and the catalog have both answered.                         *)
BothAnswered == pc = "done" /\ unitValue # Undefined /\ unitValue.outcome # Undefined

(* C12: for every pair of units the catalog converts, the Decoder gives    *)
(* the value the catalog's formula gives, and it passes the value through  *)
(* unchanged only for the pairs the catalog cannot convert.                *)
C12_DecoderUsesCatalog ==
    BothAnswered =>
        results[1].value = IF unitValue.outcome.threw THEN unitValue.value
                           ELSE unitValue.outcome.result

(* C13: a lookup for a pair with neither a direct nor a reverse entry      *)
(* returns the value unchanged and does not fail.                          *)
C13_NoEntryPassesThrough ==
    (/\ unitValue # Undefined
     /\ unitValue.outcome # Undefined
     /\ ~find(unitValue.fromUnit, unitValue.toUnit)
     /\ ~find(unitValue.toUnit, unitValue.fromUnit)) =>
        unitValue.outcome = Return(unitValue.value)

(* The formula of the entry from -> to has a non-zero additive term.       *)
Affine(from, to) == conversionFormula(from, to, I(0)) # I(0)

(* convert(_, from, to) goes to inverseConvert.                            *)
ReachesInverse(from, to) == from # to /\ ~find(from, to) /\ find(to, from)

(* C14: every entry of the table whose formula has a non-zero additive     *)
(* term has its reverse in the table, and no lookup reaches inverseConvert *)
(* with such an entry: a lookup of the reverse of an affine entry returns  *)
(* what the tabulated formula gives.                                       *)
C14_AffineBothWays ==
    /\ \A i \in 1..Len(CONVERSIONS) :
          Affine(CONVERSIONS[i].from, CONVERSIONS[i].to) =>
              find(CONVERSIONS[i].to, CONVERSIONS[i].from)
    /\ (unitValue # Undefined /\ unitValue.outcome # Undefined) =>
          /\ ReachesInverse(unitValue.fromUnit, unitValue.toUnit) =>
                ~Affine(unitValue.toUnit, unitValue.fromUnit)
          /\ (find(unitValue.toUnit, unitValue.fromUnit)
              /\ Affine(unitValue.toUnit, unitValue.fromUnit)) =>
                unitValue.outcome =
                    Return(conversionFormula(unitValue.fromUnit, unitValue.toUnit,
                                             unitValue.value))

(* 500 rankine looked up as celsius: 500 * 5/9 - 273.15 = 833/180 by the   *)
(* entry, not 500 / 493.47 by the inversion of celsius -> rankine.         *)
C14_Witness ==
    /\ unitValue # Undefined
    /\ unitValue.fromUnit = "rankine" /\ unitValue.toUnit = "celsius"
    /\ unitValue.value = I(500)
    /\ unitValue.outcome = Return(Dec(833, 180))
    /\ Affine("celsius", "rankine")

----------------------------------------------------------------------------
(* Claims about the range check.                                           *)

(* The value after the unit conversion, before the rounding.               *)
Converted(regs, rule) ==
    IF rule.unitConversion # Undefined
    THEN applyUnitConversion(decode(regs, rule), rule.unitConversion)
    ELSE decode(regs, rule)

(* The final value: converted, then rounded.                               *)
Final(regs, rule) ==
    IF rule.decimalPlaces # Undefined
    THEN toFixed(Converted(regs, rule), rule.decimalPlaces)
    ELSE Converted(regs, rule)

(* v lies within the bounds that are set, the bounds included.             *)
Within(v, check) ==
    /\ check.min = Undefined \/ NumGreaterEq(v, check.min)
    /\ check.max = Undefined \/ NumLessEq(v, check.max)

Checked(rule) == rule.validation # Undefined /\ rule.validation.enabled

(* C15: the range check is made on the final value, after the unit         *)
(* conversion and the rounding: a number is valid exactly when it lies     *)
(* within the bounds that are set, bounds included; NaN is valid exactly   *)
(* when allowNaN is set; and without an enabled check every decoded result *)
(* is valid.                                                               *)
C15_ChecksFinalValue ==
    \A i \in 1..Len(results) :
        /\ results[i].value = Final(registers, rules[i])
        /\ results[i].valid =
              IF ~Checked(rules[i]) THEN TRUE
              ELSE IF IsNaN(results[i].value)
              THEN rules[i].validation.allowNaN = Bool(TRUE)
              ELSE Within(Final(registers, rules[i]), rules[i].validation)

(* 10 celsius is 283.15 kelvin, above the maximum 283, and rounds to 283,  *)
(* which is valid.                                                         *)
C15_Witness ==
    /\ pc = "done"
    /\ results[1].valid
    /\ Checked(rules[1])
    /\ results[1].value = I(283)
    /\ rules[1].validation.max = I(283)
    /\ NumGreater(Converted(registers, rules[1]), I(283))

----------------------------------------------------------------------------
(* Claims about the validation of the rules.  The conditions are stated on *)
(* the conversions as they are configured.                                 *)

Configuration == parameters.conversions
RulesValidated == rulesValidation # Undefined

Blank(c) ==
    \/ c.name = Undefined
    \/ \A k \in 1..Len(c.name.s) : SubSeq(c.name.s, k, k) \in whitespace
BadStart(c) == c.startRegister = Undefined \/ Small(c.startRegister) < 0
BadType(c) == c.dataType = Undefined \/ c.dataType.s \notin supportedTypes
BadBits(c) ==
    /\ c.dataType = Str("bitfield")
    /\ \/ c.bitPosition # Undefined /\ Small(c.bitPosition) \notin 0..15
       \/ c.bitLength # Undefined /\ Small(c.bitLength) \notin 1..16
BadPlaces(c) == c.decimalPlaces # Undefined /\ Small(c.decimalPlaces) \notin 0..10
BadRange(c) ==
    /\ c.enableValidation
    /\ c.validation # Undefined
    /\ c.validation.min # Undefined /\ c.validation.max # Undefined
    /\ Small(c.validation.min) > Small(c.validation.max)

(* One of the conditions on a single rule that the claim lists.            *)
Listed(c) ==
    BadRange(c) \/ BadBits(c) \/ BadPlaces(c) \/ BadStart(c) \/ BadType(c) \/ Blank(c)

(* Two rules whose names are equal after trimming and lower-casing.        *)
Duplicated(cs) ==
    \E i \in 1..Len(cs), j \in 1..Len(cs) :
        /\ i < j
        /\ ~Blank(cs[i]) /\ ~Blank(cs[j])
        /\ toLowerCase(trim(cs[i].name.s)) = toLowerCase(trim(cs[j].name.s))

(* The other conditions the code takes for errors.                         *)
Unlisted(c) ==
    \/ c.byteOrder = Undefined
    \/ c.dataType = Str("bitfield") /\ c.bitMask = Undefined
       /\ c.bitPosition = Undefined
    \/ /\ c.enableUnitConversion /\ c.unitConversion # Undefined
       /\ (c.unitConversion.from = "" \/ c.unitConversion.to = "")

Malformed(cs) ==
    \/ Len(cs) = 0
    \/ \E i \in 1..Len(cs) : Listed(cs[i]) \/ Unlisted(cs[i])
    \/ Duplicated(cs)

(* The registers of a rule that has a start register and a data type.      *)
HasRange(c) == c.startRegister # Undefined /\ c.dataType # Undefined
Cells(c) ==
    Small(c.startRegister)..
        (Small(c.startRegister)
         + (IF c.dataType.s \in {"int32", "uint32", "float32"} THEN 1 ELSE 0))

(* The pairs of rules whose register ranges intersect.                     *)
Overlapping(cs) ==
    {p \in (1..Len(cs)) \X (1..Len(cs)) :
        /\ p[1] < p[2]
        /\ HasRange(cs[p[1]]) /\ HasRange(cs[p[2]])
        /\ Cells(cs[p[1]]) \cap Cells(cs[p[2]]) # {}}

(* A condition that is warned about.                                       *)
Warned(cs) ==
    \/ Overlapping(cs) # {}
    \/ \E i \in 1..Len(cs) :
          \/ cs[i].dataType = Str("scaled") /\ cs[i].scaleFactor = Undefined
             /\ cs[i].offset = Undefined
          \/ /\ cs[i].enableUnitConversion /\ cs[i].unitConversion # Undefined
             /\ cs[i].unitConversion.from = cs[i].unitConversion.to

(* C16: validateConversionRules returns valid exactly when it returns no   *)
(* error; an empty rule list is invalid with an error; and an overlap, a   *)
(* scaled rule with neither scale factor nor offset and a unit conversion  *)
(* onto the same unit give a warning and leave a rule set valid that       *)
(* breaks no requirement.                                                  *)
C16_ValidIffNoError ==
    RulesValidated =>
        /\ rulesValidation.valid = (Len(rulesValidation.errors) = 0)
        /\ Len(Configuration) = 0 =>
              /\ ~rulesValidation.valid
              /\ rulesValidation.errors = <<"At least one conversion rule is required">>
        /\ rulesValidation.valid = ~Malformed(Configuration)
        /\ (Len(Configuration) > 0 /\ Warned(Configuration)) =>
              Len(rulesValidation.warnings) > 0

(* A scaled rule without scale factor and offset next to a unit conversion *)
(* onto the same unit: two warnings, and the rule set is valid.            *)
C16_Witness ==
    /\ RulesValidated
    /\ rulesValidation.valid
    /\ Len(rulesValidation.warnings) = 2
    /\ pc # "threw"

(* C17: a rule set with a rule that has an enabled range check with min    *)
(* above max, a bit position outside 0..15 or a bit length outside 1..16   *)
(* on a bit field, decimal places outside 0..10, a negative or missing     *)
(* start register, a missing or unsupported data type or an empty name, or *)
(* with two names equal after trimming and lower-casing, is rejected with  *)
(* an error.                                                               *)
C17_Rejected ==
    (/\ RulesValidated
     /\ \/ \E i \in 1..Len(Configuration) : Listed(Configuration[i])
        \/ Duplicated(Configuration)) =>
        /\ ~rulesValidation.valid
        /\ Len(rulesValidation.errors) > 0
        /\ pc = "threw"

(* The names Temp and " temp ", each in order, rejected as duplicates.     *)
C17_Witness ==
    /\ RulesValidated
    /\ Len(Configuration) = 2
    /\ Configuration[1].name = Str("Temp")
    /\ Configuration[2].name = Str(" temp ")
    /\ rulesValidation.errors = <<"Duplicate conversion names found: temp">>
    /\ pc = "threw"

(* What the overlap detector returns for the configured rules.             *)
Detected == checkRegisterOverlaps(processConversionRules(Configuration)).overlaps

PairText(cs, p) == Text(cs[p[1]].name) \o " and " \o Text(cs[p[2]].name)

OverlapWarning(message) ==
    Len(message) >= 26 /\ SubSeq(message, 1, 26) = "Register overlaps detected"

(* C18: the overlap detector returns one entry for each pair of rules      *)
(* whose register ranges intersect and none else, each naming both rules;  *)
(* the entries make one warning and no error, and a rule set that breaks   *)
(* no requirement stays valid.                                             *)
C18_Overlaps ==
    (RulesValidated /\ Len(Configuration) > 0) =>
        /\ Len(Detected) = Cardinality(Overlapping(Configuration))
        /\ \A p \in Overlapping(Configuration) :
              \E k \in 1..Len(Detected) : Detected[k] = PairText(Configuration, p)
        /\ \A k \in 1..Len(rulesValidation.errors) :
              ~OverlapWarning(rulesValidation.errors[k])
        /\ IF Overlapping(Configuration) = {}
           THEN \A k \in 1..Len(rulesValidation.warnings) :
                    ~OverlapWarning(rulesValidation.warnings[k])
           ELSE /\ Len(rulesValidation.warnings) > 0
                /\ rulesValidation.warnings[Len(rulesValidation.warnings)] =
                      "Register overlaps detected: " \o join(Detected, ", ")
                /\ ~Malformed(Configuration) => rulesValidation.valid

(* The float32 rule flow at register 0 and the int16 rule " temp " at      *)
(* register 1: reported, and the rule set is valid.                        *)
C18_Witness ==
    /\ RulesValidated
    /\ Len(Configuration) = 2
    /\ Configuration[1] = Configured(Str("flow"), I(0), Str("float32"))
    /\ Configuration[2] = Configured(Str(" temp "), I(1), Str("int16"))
    /\ rulesValidation.warnings = <<"Register overlaps detected: flow and  temp ">>
    /\ rulesValidation.valid
    /\ pc # "threw"

----------------------------------------------------------------------------
(* Claims about the error policy.                                          *)

Policy == parameters.errorHandling
IsValid(result) == result.valid
IsInvalid(result) == ~result.valid

(* The default of a data type: 0 for the numeric ones, false for a bit     *)
(* field, null for any other.                                              *)
Default(dataType) ==
    IF dataType \in supportedTypes \ {"bitfield"} THEN I(0)
    ELSE IF dataType = "bitfield" THEN Bool(FALSE)
    ELSE Null

(* C19: under stop_on_error the first invalid result raises an error, and  *)
(* nothing is returned; under skip_invalid the valid results are returned  *)
(* in their order; under default_values every result is returned in its    *)
(* place, the valid ones as they are and each invalid one as a copy that   *)
(* is valid, has no error and has the default of its data type as value.   *)
C19_ErrorPolicy ==
    (items = <<>> /\ validResults # Undefined) =>
        CASE Policy = "stop_on_error" ->
                IF SelectSeq(results, IsInvalid) = <<>>
                THEN validResults = Return(results)
                ELSE validResults =
                        Throw("Conversion error in item 0: "
                              \o Text(SelectSeq(results, IsInvalid)[1].error))
          [] Policy = "skip_invalid" ->
                validResults = Return(SelectSeq(results, IsValid))
          [] Policy = "default_values" ->
                /\ ~validResults.threw
                /\ Len(validResults.result) = Len(results)
                /\ \A i \in 1..Len(results) :
                      validResults.result[i] =
                         IF results[i].valid THEN results[i]
                         ELSE [results[i] EXCEPT
                                  !.value = Default(results[i].dataType),
                                  !.valid = TRUE, !.error = Undefined]

(* One register under default_values: the int16 rule is kept, the bit      *)
(* field beyond the snapshot becomes false and the unsupported type null.  *)
C19_Witness ==
    /\ items = <<>> /\ validResults # Undefined
    /\ Policy = "default_values"
    /\ Len(results) = 3
    /\ results[1].valid /\ validResults.result[1] = results[1]
    /\ ~results[2].valid /\ validResults.result[2].value = Bool(FALSE)
    /\ ~results[3].valid /\ validResults.result[3].value = Null
    /\ validResults.result[3].valid

(* C20: a step of execute that finds the rule set invalid raises the       *)
(* validation error with no result decoded and nothing put out, whatever   *)
(* the error policy, and no step decodes or starts an item unless the rule *)
(* set has been validated and found valid.                                 *)
C20_ValidatedBeforeDecode ==
    [][/\ (rulesValidation' # Undefined /\ ~rulesValidation'.valid) =>
             /\ pc' = "threw"
             /\ thrown' # Undefined
             /\ results' = <<>>
             /\ returnData' = <<>>
       /\ (items # <<>> /\ (results' # results \/ pc' \in {"map", "done"})) =>
             (rulesValidation # Undefined /\ rulesValidation.valid)]_vars

(* A rule set rejected under skip_invalid with items waiting.              *)
C20_Witness ==
    /\ RulesValidated
    /\ ~rulesValidation.valid
    /\ Policy = "skip_invalid"
    /\ Len(items) = 3
    /\ pc = "threw"
    /\ results = <<>>
    /\ returnData = <<>>

(***************************************************************************)
(* Footprints: two conversions, the first at register 0 and the second at  *)
(* register 1, of every pair of data types, over snapshots of one to three *)
(* registers.                                                              *)
(***************************************************************************)
dataTypes ==
    {"int16", "uint16", "int32", "uint32", "float32", "scaled", "bitfield", "bcd"}

Typed(name, startRegister, dataType) ==
    [Configured(Str(name), I(startRegister), Str(dataType)) EXCEPT
        !.bitMask = IF dataType = "bitfield" THEN I(255) ELSE Undefined]

footprintSnapshots == {<<4660>>, <<4660, 17>>, <<4660, 17, 40000>>}

InitFootprint ==
    \E first \in dataTypes, second \in dataTypes, words \in footprintSnapshots,
       errorHandling \in {"skip_invalid", "default_values"} :
        Execution(NodeParameters(<<Typed("first", 0, first), Typed("second", 1, second)>>,
                                 "conversion_object", FALSE, errorHandling),
                  <<Item(words)>>)
NextFootprint == execute
SpecFootprint == InitFootprint /\ [][NextFootprint]_vars

(* The claim's table.                                                      *)
Registers(dataType) ==
    CASE dataType \in {"int16", "uint16", "scaled", "bitfield", "bcd"} -> 1
      [] dataType \in {"int32", "uint32", "float32"} -> 2

(* The window a result reports: one word, or the list of its words.        *)
WindowLength(result) ==
    IF result.originalValue.t = "array" THEN Len(result.originalValue.a) ELSE 1

(* C21: the rule validator's table and the decoder's table give 1 for      *)
(* int16, uint16, scaled, bitfield and bcd and 2 for int32, uint32 and     *)
(* float32; the overlap ranges of the validator are those of the decoder's *)
(* table, and the availability check and the window of the decoder are     *)
(* those of the validator's table.                                         *)
C21_SameFootprint ==
    /\ \A t \in dataTypes :
          /\ getRegistersNeeded(t) = Registers(t)
          /\ getRequiredRegisters(t) = Registers(t)
    /\ RulesValidated =>
          LET ranges == registerRanges(processConversionRules(Configuration), 1)
          IN  /\ Len(ranges) = Len(Configuration)
              /\ \A i \in 1..Len(ranges) :
                    ranges[i].end - ranges[i].start + 1 =
                        getRequiredRegisters(Configuration[i].dataType.s)
              /\ (Detected # <<>>) <=>
                    (getRequiredRegisters(Configuration[1].dataType.s) = 2)
    /\ pc = "done" =>
          \A i \in 1..Len(results) :
              LET needed == getRegistersNeeded(rules[i].dataType)
              IN  IF Len(registers) < rules[i].startRegister + needed
                  THEN /\ results[i].error = NotEnough(needed,
                                    Len(registers) - rules[i].startRegister)
                       /\ results[i].originalValue = Null
                  ELSE /\ results[i].error \notin NotEnoughMessages
                       /\ WindowLength(results[i]) = needed

(* A float32 rule at register 0 and a uint32 rule at register 1 over two   *)
(* registers: the validator reports the overlap, the first rule decodes    *)
(* two words and the second is one register short of its two.              *)
C21_Witness ==
    /\ pc = "done"
    /\ Configuration[1].dataType = Str("float32")
    /\ Configuration[2].dataType = Str("uint32")
    /\ Len(registers) = 2
    /\ rulesValidation.warnings = <<"Register overlaps detected: first and second">>
    /\ WindowLength(results[1]) = 2
    /\ results[2].error = NotEnough(2, 1)

(***************************************************************************)
(* The quick mode, type 'double': snapshots of three to five words, among  *)
(* them the words of 1.0, of pi, of an infinity and of a NaN, and a        *)
(* negative word as the Modbus node delivers it, under both byte orders.   *)
(***************************************************************************)
doubleWords == {0, 1, 16368, 16393, 8699, 21572, 11544, 32752, 65528, -32768}

doubleInputs ==
    {<<a, b, c, d>> : a \in doubleWords, b \in {0, 8699, 1}, c \in {0, 21572, 1},
                      d \in {0, 11544, 1}}
    \cup {<<d, c, b, a>> : a \in doubleWords, b \in {0, 8699}, c \in {0, 21572},
                           d \in {0, 11544}}
    \cup {<<16368, 0, 0>>, <<16368, 0, 0, 0, 7>>}

InitQuickDouble ==
    \E words \in doubleInputs, byteOrder \in {"BE", "LE"}, meta \in BOOLEAN :
        /\ originalInput = ModbusOutput(words)
        /\ registers = extractRegisters(ModbusOutput(words))
        /\ rules = <<>>
        /\ results = <<>>
        /\ pc = "quick"
        /\ quick = Undefined
        /\ parameters = [QuickParameters("double", FALSE, meta) EXCEPT
                            !.quickByteOrder = byteOrder]
        /\ rulesValidation = Undefined
        /\ items = <<>>
        /\ itemIndex = 0
        /\ returnData = <<>>
        /\ validResults = Undefined
        /\ thrown = Undefined
        /\ OtherIdle
NextQuickDouble == ExecuteQuickMode
SpecQuickDouble == InitQuickDouble /\ [][NextQuickDouble]_vars

(* The double whose 64-bit pattern is w0*2^48 + w1*2^32 + w2*2^16 + w3.    *)
Pattern(w0, w1, w2, w3) ==
    LET neg == w0 >= 32768
        expField == (w0 % 32768) \div 16
        top == w0 % 16
        middle == w1 * 256 + w2 \div 256
        low == (w2 % 256) * 65536 + w3
    IN  CASE expField = 2047 /\ (top # 0 \/ middle # 0 \/ low # 0) -> NaN
          [] expField = 2047 -> [t |-> "inf", neg |-> neg]
          [] expField = 0 /\ top = 0 /\ middle = 0 /\ low = 0 ->
                [t |-> "double", neg |-> neg, man |-> <<0, 0, 0>>, exp |-> 0]
          [] expField = 0 ->
                [t |-> "double", neg |-> neg, man |-> <<top, middle, low>>,
                 exp |-> -1074]
          [] OTHER ->
                [t |-> "double", neg |-> neg, man |-> <<16 + top, middle, low>>,
                 exp |-> expField - 1075]

RegisterWord(i) == Small(registers[i])
Unsigned16 == \A i \in 1..Len(registers) : RegisterWord(i) \in 0..Max16
QuickDone == pc = "quick" /\ convertedData # Undefined /\ ~convertedData.threw
DoubleOut == convertedData.result.output.value

(* C22: with four unsigned words and big-endian byte order the quick-mode  *)
(* double is the IEEE-754 double of the pattern w0*2^48 + w1*2^32 +        *)
(* w2*2^16 + w3, and with little-endian byte order that of the words       *)
(* taken in reversed order.                                                *)
C22_DoubleWordOrder ==
    (/\ QuickDone /\ parameters.quickConvertType = "double"
     /\ Len(registers) >= 4 /\ Unsigned16) =>
        DoubleOut = IF parameters.quickByteOrder = "BE"
                    THEN Pattern(RegisterWord(1), RegisterWord(2), RegisterWord(3), RegisterWord(4))
                    ELSE Pattern(RegisterWord(4), RegisterWord(3), RegisterWord(2), RegisterWord(1))

(***************************************************************************)
(* Output: one or two conversions whose names are or are not names of      *)
(* fields of the input item, under every output format, with and without   *)
(* metadata and timestamp; the item is the output of a Modbus read to      *)
(* which an earlier node has added a timestamp.                            *)
(***************************************************************************)
outputNames == {"reading", "data", "address", "conversions", "timestamp"}

outputConversions ==
    {<<Configured(Str(a), I(0), Str("int16"))>> : a \in outputNames}
    \cup {<<Configured(Str(a), I(0), Str("int16")),
            Configured(Str(b), I(1), Str("uint16"))>> :
            a \in outputNames, b \in outputNames \ {"reading"}}

stampedItem == [json |-> set(ModbusOutput(<<4660, 17>>), "timestamp", Str("earlier"))]

InitOutput ==
    \E conversions \in outputConversions, outputFormat \in validOutputFormats,
       addMetadata \in BOOLEAN, addTimestamp \in BOOLEAN :
        Execution([NodeParameters(conversions, outputFormat, addMetadata,
                                  "skip_invalid")
                      EXCEPT !.addTimestamp = addTimestamp],
                  <<stampedItem>>)
NextOutput == execute
SpecOutput == InitOutput /\ [][NextOutput]_vars

(* The input item an output item is paired with.                           *)
PairedInput(k) == items[returnData[k].pairedItem.item + 1].json

(* C23: every field of the input item is a field of the output item made   *)
(* from it, with the value it has in the input item, for every output      *)
(* format, metadata and timestamp setting and rule set.                    *)
C23_OriginalPreserved ==
    \A k \in 1..Len(returnData) :
        \A key \in DOMAIN PairedInput(k) :
            /\ key \in DOMAIN returnData[k].json
            /\ returnData[k].json[key] = PairedInput(k)[key]

----------------------------------------------------------------------------
(* Claims about what a conversion pass leaves alone.                       *)

Prefix(s, t) == Len(s) <= Len(t) /\ \A i \in 1..Len(s) : t[i] = s[i]

(* C24: no step of a conversion pass or of the error policy after it       *)
(* changes the register snapshot, a rule of the rule set, a result already *)
(* made or an input item; a finished pass has the results of a pass over   *)
(* the same snapshot and rule set run on its own, whatever passes came     *)
(* before it.                                                              *)
C24_InputsUntouched ==
    [][/\ items' = items
       /\ pc \in {"map", "done", "loop"} => rules' = rules
       /\ pc \in {"map", "done"} =>
             /\ registers' = registers
             /\ originalInput' = originalInput
       /\ pc = "map" => Prefix(results, results')
       /\ pc = "done" => results' = results
       /\ pc' = "done" => results' = Alone(registers', rules')]_vars

(* The int32 rule span at register 1 after the third item of three under   *)
(* default_values: the pass over the one register of the first item was    *)
(* given the default, and the pass over the last item is that of the       *)
(* rule set on its own.                                                    *)
C24_Witness ==
    /\ pc = "loop"
    /\ itemIndex = 3
    /\ Policy = "default_values"
    /\ Configuration = <<Configured(Str("span"), I(1), Str("int32"))>>
    /\ rules = decoderRules(processConversionRules(Configuration))
    /\ registers = <<I(300), I(0), I(0), I(7)>>
    /\ results = Alone(registers, rules)
    /\ results[1].valid
    /\ Len(returnData) = 3
    /\ returnData[1].json["span"] = I(0)
    /\ returnData[1].json["data"] = items[1].json.data

----------------------------------------------------------------------------
(* The Modbus trigger node (ModbusTrigger.trigger).  trigger is the        *)
(* closure the node keeps after trigger() has returned: the interval timer *)
(* poller, previousData and cycle of the mode that runs, the settlement of *)
(* the promise of a manual run, the events emitted, the reads whose        *)
(* callback has not run yet, and the arguments of the last callback.  A    *)
(* register comes off the wire as a buffer of two bytes.                   *)

Buffer(word) == [t |-> "buffer", b |-> <<word \div 256, word % 256>>]

(* value.readInt16BE(0)                                                    *)
readInt16BE(value) ==
    IF value.b[1] >= 128
    THEN I(value.b[1] * 256 + value.b[2] - Two16)
    ELSE I(value.b[1] * 256 + value.b[2])


(* compareData that takes two lists of one length for equal.               *)
compareData_LengthOnly(data1, data2) ==
    IF ~Truthy(data1) \/ ~Truthy(data2) THEN FALSE
    ELSE Len(data1.a) = Len(data2.a)

compareData(data1, data2) ==
    IF ~Truthy(data1) \/ ~Truthy(data2) THEN FALSE
    ELSE IF Len(data1.a) # Len(data2.a) THEN FALSE
    ELSE \A i \in 1..Len(data1.a) : data1.a[i] = data2.a[i]

processData(functionCode, data) ==
    IF functionCode \in {"FC1", "FC2"}
    THEN IF data # Undefined /\ Truthy(data.response.data)
         THEN data.response.data ELSE Array(<<>>)
    ELSE IF data # Undefined /\ data.response.data # Undefined
         THEN Array([i \in 1..Len(data.response.data.a) |->
                        readInt16BE(data.response.data.a[i])])
         ELSE Array(<<>>)

(* returnData of a callback.                                               *)
triggerEvent(t, currentData) ==
    [functionCode |-> Str(t.functionCode), address |-> t.memoryAddress,
     quantity |-> t.quantity, data |-> currentData]

clearInterval(poller) == IF poller = "running" THEN "cleared" ELSE poller
resolve(promise) == IF promise = "pending" THEN "resolved" ELSE promise
reject(promise) == IF promise = "pending" THEN "rejected" ELSE promise

readError(t, err) ==
    Str("MODBUS " \o t.functionCode \o " Error: " \o err.message)

(* The callback of the trigger mode once currentData is known.             *)
pollerChange(t, currentData) ==
    IF ~compareData(t.previousData, currentData)
    THEN [t EXCEPT !.currentData = currentData, !.previousData = currentData,
                   !.emitted = Append(@, triggerEvent(t, currentData))]
    ELSE [t EXCEPT !.currentData = currentData]

(* (err, data) => { ... } of the trigger mode; the error it throws has no  *)
(* handler.                                                                *)
pollerCallback(t, err, data) ==
    IF Truthy(err)
    THEN [t EXCEPT !.err = err, !.poller = clearInterval(@),
                   !.uncaught = readError(t, err)]
    ELSE pollerChange([t EXCEPT !.err = err], processData(t.functionCode, data))

(* The callback of a manual run once currentData is known.                 *)
manualChange(t, currentData) ==
    IF ~compareData(t.previousData, currentData) \/ t.cycle = 0
    THEN IF t.cycle > 0
         THEN [t EXCEPT !.currentData = currentData, !.previousData = currentData,
                        !.cycle = @ + 1,
                        !.emitted = Append(@, triggerEvent(t, currentData)),
                        !.poller = clearInterval(@), !.promise = resolve(@)]
         ELSE [t EXCEPT !.currentData = currentData, !.previousData = currentData,
                        !.cycle = @ + 1]
    ELSE [t EXCEPT !.currentData = currentData]

(* (err, data) => { ... } of manualTriggerFunction.                        *)
manualCallback(t, err, data) ==
    IF Truthy(err)
    THEN [t EXCEPT !.err = err, !.poller = clearInterval(@), !.promise = reject(@)]
    ELSE manualChange([t EXCEPT !.err = err], processData(t.functionCode, data))

callback(t, err, data) ==
    IF t.mode = "trigger" THEN pollerCallback(t, err, data)
    ELSE manualCallback(t, err, data)

(* readModbusData(callback): a read is sent, or the callback is called     *)
(* with the error of an invalid function code.                             *)
readModbusData(t) ==
    IF t.functionCode \in {"FC1", "FC2", "FC3", "FC4"}
    THEN [t EXCEPT !.reads = @ + 1, !.outstanding = @ + 1]
    ELSE callback(t, [t |-> "object",
                      message |-> "Invalid function code: " \o t.functionCode],
                  Null)

MaxReads == 4

(* A tick of the interval timer.                                           *)
Tick ==
    /\ trigger # Undefined
    /\ trigger.poller = "running"
    /\ trigger.reads < MaxReads
    /\ trigger' = readModbusData(trigger)
    /\ UNCHANGED <<registers, rules, results, pc, originalInput, quick, nodeVars,
                   convertedData, unitValue, modbus>>

(* What the device answers a read of one register or coil with.            *)
answers(functionCode) ==
    {[err |-> [t |-> "object", message |-> "timeout"], data |-> Undefined],
     [err |-> Null, data |-> [t |-> "object", response |-> [data |-> Undefined]]]}
    \cup {[err |-> Null, data |-> [t |-> "object", response |-> [data |-> Array(a)]]] :
            a \in IF functionCode \in {"FC1", "FC2"}
                  THEN {<<Bool(TRUE)>>, <<Bool(FALSE)>>}
                  ELSE {<<Buffer(1)>>, <<Buffer(65535)>>}}

(* The answer to a read arrives and its callback runs.                     *)
Answer ==
    /\ trigger # Undefined
    /\ trigger.outstanding > 0
    /\ \E answer \in answers(trigger.functionCode) :
          trigger' = callback([trigger EXCEPT !.outstanding = @ - 1],
                              answer.err, answer.data)
    /\ UNCHANGED <<registers, rules, results, pc, originalInput, quick, nodeVars,
                   convertedData, unitValue, modbus>>

(* manualTriggerFunction(): the promise is made and the timer started.     *)
ManualTriggerFunction ==
    /\ trigger # Undefined
    /\ trigger.mode = "manual"
    /\ trigger.promise = "none"
    /\ ~trigger.closed
    /\ trigger' = [trigger EXCEPT !.promise = "pending", !.poller = "running",
                                  !.cycle = 0, !.previousData = Undefined]
    /\ UNCHANGED <<registers, rules, results, pc, originalInput, quick, nodeVars,
                   convertedData, unitValue, modbus>>

(* closeFunction()                                                         *)
CloseFunction ==
    /\ trigger # Undefined
    /\ ~trigger.closed
    /\ trigger' = [trigger EXCEPT !.poller = clearInterval(@), !.closed = TRUE]
    /\ UNCHANGED <<registers, rules, results, pc, originalInput, quick, nodeVars,
                   convertedData, unitValue, modbus>>

(* No conversion under way.                                                *)
ConverterIdle ==
    /\ registers = <<>>
    /\ rules = <<>>
    /\ results = <<>>
    /\ pc = "idle"
    /\ originalInput = Undefined
    /\ quick = Undefined
    /\ NodeIdle
    /\ convertedData = Undefined
    /\ unitValue = Undefined

(* The closure when trigger() has returned: in trigger mode the timer is   *)
(* running, in manual mode it is not set yet.                              *)
Triggered(mode, functionCode) ==
    [mode |-> mode, functionCode |-> functionCode, memoryAddress |-> I(100),
     quantity |-> I(1), poller |-> IF mode = "trigger" THEN "running" ELSE "unset",
     previousData |-> Undefined, cycle |-> 0, promise |-> "none",
     emitted |-> <<>>, reads |-> 0, outstanding |-> 0, closed |-> FALSE,
     err |-> Undefined, currentData |-> Undefined, uncaught |-> Undefined]

functionCodes == {"FC1", "FC3", "FC9"}

InitTrigger ==
    /\ ConverterIdle
    /\ modbus = Undefined
    /\ \E mode \in {"trigger", "manual"}, functionCode \in functionCodes :
          trigger = Triggered(mode, functionCode)
NextTrigger == Tick \/ Answer \/ ManualTriggerFunction \/ CloseFunction
SpecTrigger == InitTrigger /\ [][NextTrigger]_vars

----------------------------------------------------------------------------
----------------------------------------------------------------------------
(* The Modbus node (Modbus.execute).  modbus is the call: its parameters,  *)
(* how far it has come (state), the err and data of the client's callback, *)
(* responseData, the error the call is rejected with (thrown) and an error *)
(* thrown where nothing catches it (uncaught).                             *)

NodeOperationError(message) ==
    [t |-> "object", name |-> "NodeOperationError", message |-> message]

(* await createClient(credentials): the connection is made, or the promise *)
(* is rejected with the ApplicationError of the connection error.          *)
ModbusConnect ==
    /\ modbus # Undefined
    /\ modbus.state = "called"
    /\ \E connected \in BOOLEAN :
          modbus' = IF connected
                    THEN [modbus EXCEPT !.state = "connected"]
                    ELSE [modbus EXCEPT
                             !.state = "threw",
                             !.thrown = [t |-> "object", name |-> "ApplicationError",
                                         message |-> "connect ECONNREFUSED"]]
    /\ UNCHANGED <<registers, rules, results, pc, originalInput, quick, nodeVars,
                   convertedData, unitValue, trigger>>

(* buffer.writeInt16BE(value) raises a RangeError outside -32768..32767.   *)
writeInt16BE(value) ==
    IF NumLess(value, I(-(MaxInt16 + 1))) \/ NumGreater(value, I(MaxInt16))
    THEN Null
    ELSE Buffer(Small(value) % Two16)

(* The executor of the promise: the request is sent, or the executor       *)
(* throws, which rejects the promise.                                      *)
request(m) ==
    CASE m.operation = "read" /\ m.functionCode \in {"FC1", "FC2", "FC3", "FC4"} ->
            [m EXCEPT !.state = "awaiting"]
      [] m.operation = "read" ->
            [m EXCEPT !.state = "threw",
                      !.thrown = NodeOperationError("Invalid function code: "
                                                    \o m.functionCode)]
      [] m.operation = "write" /\ writeInt16BE(m.value) = Null ->
            [m EXCEPT !.state = "threw",
                      !.thrown = [t |-> "object", name |-> "RangeError",
                                  message |-> "The value of \"value\" is out of range."]]
      [] m.operation = "write" ->
            [m EXCEPT !.state = "awaiting", !.buffer = writeInt16BE(m.value)]
      [] OTHER -> [m EXCEPT !.state = "resolved"]

ModbusRequest ==
    /\ modbus # Undefined
    /\ modbus.state = "connected"
    /\ modbus' = request(modbus)
    /\ UNCHANGED <<registers, rules, results, pc, originalInput, quick, nodeVars,
                   convertedData, unitValue, trigger>>

(* data: of the returnData of a read.                                      *)
readData(functionCode, data) ==
    IF functionCode \in {"FC1", "FC2"}
    THEN IF data # Undefined /\ Truthy(data.response.data)
         THEN data.response.data ELSE Array(<<>>)
    ELSE IF data # Undefined /\ data.response.data # Undefined
         THEN Array([i \in 1..Len(data.response.data.a) |->
                        readInt16BE(data.response.data.a[i])])
         ELSE Undefined

(* (err, data) => { ... } of a read or of the write: an error is thrown    *)
(* inside the client's callback, where the promise, which has no reject,   *)
(* is out of reach, and the call stays awaiting.                           *)
modbusCallback(m, err, data) ==
    IF Truthy(err)
    THEN [m EXCEPT !.err = err, !.state = "abandoned",
                   !.uncaught = NodeOperationError(
                       "MODBUS " \o (IF m.operation = "write" THEN "Write"
                                    ELSE m.functionCode)
                       \o " Error: " \o err.message)]
    ELSE IF m.operation = "write"
    THEN [m EXCEPT !.err = err, !.state = "resolved",
                   !.responseData =
                       [functionCode |-> Str("FC6"), address |-> m.memoryAddress,
                        value |-> m.value, data |-> data.response]]
    ELSE [m EXCEPT !.err = err, !.state = "resolved",
                   !.responseData =
                       [functionCode |-> Str(m.functionCode),
                        address |-> m.memoryAddress, quantity |-> m.quantity,
                        data |-> readData(m.functionCode, data)]]

(* The words on the wire and the coils the device answers with.            *)
wireWords == {0, 1, 4660, 32767, 32768, 65535}

modbusAnswers(m) ==
    {[err |-> [t |-> "object", message |-> "timeout"], data |-> Undefined]}
    \cup
    IF m.operation = "write"
    THEN {[err |-> Null,
           data |-> [t |-> "object",
                     response |-> [t |-> "object", address |-> m.memoryAddress,
                                   value |-> m.buffer]]]}
    ELSE IF m.functionCode \in {"FC1", "FC2"}
    THEN {[err |-> Null,
           data |-> [t |-> "object", response |-> [data |-> Array(<<Bool(a), Bool(b)>>)]]] :
            a \in BOOLEAN, b \in BOOLEAN}
    ELSE {[err |-> Null,
           data |-> [t |-> "object",
                     response |-> [data |-> Array(<<Buffer(hi), Buffer(lo)>>)]]] :
            hi \in wireWords, lo \in wireWords}

(* The client calls the callback with the device's answer or an error.     *)
ModbusCallback ==
    /\ modbus # Undefined
    /\ modbus.state = "awaiting"
    /\ \E answer \in modbusAnswers(modbus) :
          modbus' = modbusCallback([modbus EXCEPT !.data = answer.data],
                                   answer.err, answer.data)
    /\ UNCHANGED <<registers, rules, results, pc, originalInput, quick, nodeVars,
                   convertedData, unitValue, trigger>>

(* return [this.helpers.returnJsonArray(responseData)]                     *)
ModbusReturn ==
    /\ modbus # Undefined
    /\ modbus.state = "resolved"
    /\ modbus' = [modbus EXCEPT !.state = "returned"]
    /\ UNCHANGED <<registers, rules, results, pc, originalInput, quick, nodeVars,
                   convertedData, unitValue, trigger>>

Modbus_execute == ModbusConnect \/ ModbusRequest \/ ModbusCallback \/ ModbusReturn

(* The call when execute is entered.                                       *)
Called(operation, functionCode, value) ==
    [operation |-> operation, functionCode |-> functionCode,
     memoryAddress |-> I(100), quantity |-> I(2), value |-> value,
     state |-> "called", buffer |-> Undefined, err |-> Undefined,
     data |-> Undefined, responseData |-> [t |-> "object"], thrown |-> Undefined,
     uncaught |-> Undefined]

modbusCalls ==
    {Called("read", functionCode, Undefined) :
        functionCode \in {"FC1", "FC2", "FC3", "FC4", "FC9"}}
    \cup {Called("write", "", I(value)) : value \in {1, -5, 32767, 40000}}

InitModbus ==
    /\ ConverterIdle
    /\ trigger = Undefined
    /\ \E call \in modbusCalls : modbus = call

(* The client answers every request, with a timeout error at the latest,   *)
(* and the continuation of an await runs once its promise is settled.      *)
NextModbus == Modbus_execute
SpecModbus == InitModbus /\ [][NextModbus]_vars /\ WF_vars(NextModbus)

(* The output item of the Modbus node is the input item of the converter   *)
(* node, here with one uint32 and one int32 rule over its two registers.   *)
Connection ==
    /\ modbus # Undefined
    /\ modbus.state = "returned"
    /\ modbus.responseData.data.t = "array"
    /\ pc = "idle"
    /\ originalInput' = modbus.responseData
    /\ registers' = extractRegisters(modbus.responseData)
    /\ rules' = <<Rule("unsigned", 0, "uint32", "big_endian"),
                  Rule("signed", 0, "int32", "big_endian")>>
    /\ results' = <<>>
    /\ pc' = "map"
    /\ UNCHANGED <<quick, nodeVars, otherVars>>

InitWorkflow ==
    /\ ConverterIdle
    /\ trigger = Undefined
    /\ \E functionCode \in {"FC3", "FC4"} :
          modbus = Called("read", functionCode, Undefined)
NextWorkflow == Modbus_execute \/ Connection \/ convertMultiple
SpecWorkflow == InitWorkflow /\ [][NextWorkflow]_vars

----------------------------------------------------------------------------
(* Claims about the Modbus node.                                           *)

Completed == modbus.state \in {"returned", "threw"}

Requested ==
    /\ modbus.operation \in {"read", "write"}
    /\ modbus.operation = "read" => modbus.functionCode \in {"FC1", "FC2", "FC3", "FC4"}

(* C28: Modbus.execute always completes for every read of FC1 to FC4 and   *)
(* every write: once the client has called back without an error the call  *)
(* returns the response record, once it has called back with an error the  *)
(* call ends by raising a NodeOperationError, and no call stays pending    *)
(* for ever.                                                               *)
C28_AlwaysCompletes ==
    /\ <>Completed
    /\ [](Requested /\ modbus.state = "returned" =>
             /\ modbus.err = Null
             /\ modbus.responseData.address = modbus.memoryAddress
             /\ "data" \in DOMAIN modbus.responseData)
    /\ (Requested /\ Truthy(modbus.err)) ~>
          (modbus.state = "threw" /\ modbus.thrown.name = "NodeOperationError")

(* The parts of C28 the code keeps: a call whose client answers without an *)
(* error returns the record, and a call that never reaches the client      *)
(* (no connection, an invalid function code) is rejected.                  *)
ModbusAnswered ==
    (modbus.state = "awaiting" /\ modbus.err = Undefined) ~>
        (Completed \/ Truthy(modbus.err))


(* The 16-bit word the device sent in register i of the answer.            *)
WireWord(i) == modbus.data.response.data.a[i].b[1] * 256
               + modbus.data.response.data.a[i].b[2]

(* C29: for every pair of wire words (hi, lo) read with FC3 or FC4 and     *)
(* handed by the Modbus node to the converter, the uint32 big_endian       *)
(* result is hi * 65536 + lo and the int32 result is its two's-complement  *)
(* reading.                                                                *)
C29_WireWords32 ==
    pc = "done" /\ modbus # Undefined =>
        /\ results[1].value = Wide(WireWord(1), WireWord(2))
        /\ results[2].value =
              IF WireWord(1) > MaxInt16
              THEN Wide(WireWord(1) - Two16, WireWord(2))
              ELSE Wide(WireWord(1), WireWord(2))

(* The part of C29 the code keeps: the results are right whenever the low  *)
(* word is below 32768.                                                    *)
WireWords32_LowPositive ==
    pc = "done" /\ modbus # Undefined /\ WireWord(2) <= MaxInt16 =>
        /\ results[1].value = Wide(WireWord(1), WireWord(2))
        /\ results[2].value =
              IF WireWord(1) > MaxInt16
              THEN Wide(WireWord(1) - Two16, WireWord(2))
              ELSE Wide(WireWord(1), WireWord(2))

(* With a low word of 32768 or more the high half of both results is all   *)
(* ones, whatever the high word was.                                       *)
WireWords32_LowNegative ==
    pc = "done" /\ modbus # Undefined /\ WireWord(2) > MaxInt16 =>
        /\ results[1].value = Wide(Max16, WireWord(2))
        /\ results[2].value = Wide(-1, WireWord(2))

(* Claims about the trigger node.                                          *)

(* A step in which the callback of a read runs, and one in which it runs   *)
(* without an error.                                                       *)
CallbackRuns == trigger'.outstanding = trigger.outstanding - 1
ReadSucceeds == CallbackRuns /\ trigger'.err = Null

(* Two lists that differ in length or in an element.                       *)
Differs(data1, data2) ==
    \/ Len(data1.a) # Len(data2.a)
    \/ \E i \in 1..Len(data1.a) : data1.a[i] # data2.a[i]

LastEmitted == trigger.emitted[Len(trigger.emitted)]

EventOf(data) ==
    [functionCode |-> Str(trigger.functionCode), address |-> I(100),
     quantity |-> I(1), data |-> data]

(* C25: in trigger mode a successful read emits an event with its data     *)
(* exactly when no event was emitted before or its data differs from the   *)
(* data of the last event emitted; nothing else emits, and no two          *)
(* consecutive events carry equal data, whenever the callbacks run.        *)
C25_EmitsOnChange ==
    [][trigger.mode = "trigger" =>
          /\ ReadSucceeds =>
                IF trigger.emitted = <<>>
                   \/ Differs(trigger'.currentData, LastEmitted.data)
                THEN trigger'.emitted =
                        Append(trigger.emitted, EventOf(trigger'.currentData))
                ELSE trigger'.emitted = trigger.emitted
          /\ ~ReadSucceeds => trigger'.emitted = trigger.emitted
          /\ \A k \in 1..(Len(trigger'.emitted) - 1) :
                trigger'.emitted[k].data # trigger'.emitted[k + 1].data]_vars

(* Four reads all answered after the last tick: the values 1, -1, -1 and   *)
(* 1 gave three events.                                                    *)
C25_Witness ==
    /\ trigger.mode = "trigger"
    /\ trigger.functionCode = "FC3"
    /\ trigger.reads = 4
    /\ trigger.outstanding = 0
    /\ Len(trigger.emitted) = 3
    /\ trigger.emitted[1].data = Array(<<I(1)>>)
    /\ trigger.emitted[2].data = Array(<<I(-1)>>)
    /\ trigger.emitted[3].data = Array(<<I(1)>>)
    /\ trigger.uncaught = Undefined

(* C26: a manual run emits nothing at its first successful read, emits at  *)
(* the first later read whose data differs from the baseline, then stops   *)
(* the timer and resolves, and emits at most one event in all, however     *)
(* ticks and callbacks interleave.                                         *)
C26_ManualOneEvent ==
    [][trigger.mode = "manual" =>
          /\ (ReadSucceeds /\ trigger.cycle = 0) => trigger'.emitted = <<>>
          /\ (/\ ReadSucceeds /\ trigger.cycle > 0 /\ trigger.emitted = <<>>
              /\ Differs(trigger'.currentData, trigger.previousData)) =>
                /\ trigger'.emitted = <<EventOf(trigger'.currentData)>>
                /\ trigger'.poller # "running"
          /\ Len(trigger'.emitted) <= 1]_vars

(* The trigger has been stopped: closeFunction has run, or a read error    *)
(* has cleared the timer.                                                  *)
Stopped ==
    \/ trigger.closed
    \/ trigger.uncaught # Undefined
    \/ trigger.promise = "rejected"

(* C27: once the trigger is stopped no read is issued and no event is      *)
(* emitted, also when a read was in flight.                                *)
C27_QuietAfterStop ==
    [][Stopped => /\ trigger'.reads = trigger.reads
                  /\ trigger'.emitted = trigger.emitted]_vars

----------------------------------------------------------------------------
(* The device presets, ConversionPresets.                                  *)

(* A PresetConversion; byteOrder is 'BE' or absent.                        *)
PresetConversion(name, dataType, startRegister, byteOrder) ==
    [name |-> Str(name), startRegister |-> I(startRegister),
     dataType |-> Str(dataType), byteOrder |-> byteOrder,
     scaleFactor |-> Undefined, offset |-> Undefined, decimalPlaces |-> Undefined,
     bitMask |-> Undefined, bitPosition |-> Undefined, bitLength |-> Undefined,
     validation |-> Undefined, unitConversion |-> Undefined]

ConversionPreset(id, conversions) == [id |-> id, conversions |-> conversions]

PRESETS ==
    << ConversionPreset("temperature_sensor",
          << [PresetConversion("temperature", "float32", 0, Str("BE")) EXCEPT
                 !.unitConversion = UnitConversion("celsius", "fahrenheit"),
                 !.validation = Validation(I(-50), I(150))] >>),
       ConversionPreset("pressure_transmitter",
          << [PresetConversion("pressure", "scaled", 0, Undefined) EXCEPT
                 !.scaleFactor = Frac(1, 100), !.offset = I(0),
                 !.validation = Validation(I(0), I(1000))] >>),
       ConversionPreset("power_meter",
          << PresetConversion("voltage_l1", "float32", 0, Str("BE")),
             PresetConversion("voltage_l2", "float32", 2, Str("BE")),
             PresetConversion("voltage_l3", "float32", 4, Str("BE")),
             PresetConversion("current_l1", "float32", 6, Str("BE")),
             PresetConversion("current_l2", "float32", 8, Str("BE")),
             PresetConversion("current_l3", "float32", 10, Str("BE")),
             [PresetConversion("power_total", "float32", 12, Str("BE")) EXCEPT
                 !.unitConversion = UnitConversion("watt", "kilowatt")] >>),
       ConversionPreset("flow_meter",
          << [PresetConversion("flow_rate", "float32", 0, Str("BE")) EXCEPT
                 !.unitConversion = UnitConversion("lpm", "gpm")],
             PresetConversion("total_volume", "uint32", 2, Str("BE")) >>),
       ConversionPreset("plc_status",
          << PresetConversion("status_word", "bitfield", 0, Undefined),
             PresetConversion("alarm_word", "bitfield", 1, Undefined),
             PresetConversion("setpoint", "int16", 2, Undefined),
             PresetConversion("actual_value", "int16", 3, Undefined) >>),
       ConversionPreset("vfd_drive",
          << [PresetConversion("frequency", "scaled", 0, Undefined) EXCEPT
                 !.scaleFactor = Frac(1, 10),
                 !.validation = Validation(I(0), I(60))],
             [PresetConversion("motor_current", "scaled", 1, Undefined) EXCEPT
                 !.scaleFactor = Frac(1, 10)],
             PresetConversion("motor_voltage", "int16", 2, Undefined),
             PresetConversion("drive_status", "bitfield", 3, Undefined) >>),
       ConversionPreset("tank_level",
          << [PresetConversion("level", "scaled", 0, Undefined) EXCEPT
                 !.scaleFactor = Frac(1, 10), !.offset = I(0),
                 !.validation = Validation(I(0), I(100))] >>),
       ConversionPreset("energy_meter",
          << PresetConversion("active_energy", "uint32", 0, Str("BE")),
             PresetConversion("reactive_energy", "uint32", 2, Str("BE")),
             [PresetConversion("power_factor", "scaled", 4, Undefined) EXCEPT
                 !.scaleFactor = Frac(1, 1000),
                 !.validation = Validation(I(-1), I(1))] >>) >>

(* this.PRESETS.find(preset => preset.id === id)                           *)
getPresetById(id) ==
    IF \E i \in 1..Len(PRESETS) : PRESETS[i].id = id
    THEN PRESETS[CHOOSE i \in 1..Len(PRESETS) :
                    PRESETS[i].id = id /\ \A k \in 1..(i - 1) : PRESETS[k].id # id]
    ELSE Undefined

applyPreset(presetId, startOffset) ==
    IF getPresetById(presetId) = Undefined THEN <<>>
    ELSE [i \in 1..Len(getPresetById(presetId).conversions) |->
            [getPresetById(presetId).conversions[i] EXCEPT
                !.startRegister = NumAdd(@, startOffset),
                !.byteOrder = IF @ = Str("BE") THEN Str("big_endian")
                              ELSE Str("little_endian")]]

(* The preset is applied at the offset of the parameters.                  *)
ApplyPreset ==
    /\ pc = "idle"
    /\ parameters # Undefined
    /\ "presetId" \in DOMAIN parameters
    /\ rules' = applyPreset(parameters.presetId, parameters.startOffset)
    /\ pc' = "applied"
    /\ UNCHANGED <<registers, results, originalInput, quick, nodeVars, otherVars>>

(* The applied rules are validated.                                        *)
ValidatePreset ==
    /\ pc = "applied"
    /\ rulesValidation' = validateConversionRules(rules)
    /\ pc' = "validated"
    /\ UNCHANGED <<registers, rules, results, originalInput, quick, parameters,
                   items, itemIndex, returnData, validResults, thrown, otherVars>>

(* Every preset id and one id that is no preset, at the offsets up to      *)
(* MaxOffset.                                                              *)
MaxOffset == 4
presetIds == {PRESETS[i].id : i \in 1..Len(PRESETS)} \cup {"custom"}

InitPresets ==
    /\ registers = <<>> /\ rules = <<>> /\ results = <<>>
    /\ pc = "idle"
    /\ originalInput = Undefined /\ quick = Undefined
    /\ rulesValidation = Undefined
    /\ items = <<>> /\ itemIndex = 0 /\ returnData = <<>>
    /\ validResults = Undefined /\ thrown = Undefined
    /\ convertedData = Undefined /\ unitValue = Undefined
    /\ DeviceIdle
    /\ \E presetId \in presetIds, startOffset \in 0..MaxOffset :
          parameters = [t |-> "object", presetId |-> presetId,
                        startOffset |-> I(startOffset)]
NextPresets == ApplyPreset \/ ValidatePreset
SpecPresets == InitPresets /\ [][NextPresets]_vars

(* The preset of the parameters.                                           *)
Preset == getPresetById(parameters.presetId)

(* C30: for every preset id of PRESETS and every startOffset >= 0 the      *)
(* rules of applyPreset are as many as the preset's conversions, in their  *)
(* order, each startRegister shifted by startOffset, and                   *)
(* validateConversionRules accepts them.                                   *)
C30_PresetsUsable ==
    /\ pc \in {"applied", "validated"} /\ Preset # Undefined =>
          /\ Len(rules) = Len(Preset.conversions)
          /\ \A i \in 1..Len(rules) :
                /\ rules[i].name = Preset.conversions[i].name
                /\ rules[i].dataType = Preset.conversions[i].dataType
                /\ rules[i].startRegister =
                      I(Small(Preset.conversions[i].startRegister)
                        + Small(parameters.startOffset))
    /\ pc = "validated" /\ Preset # Undefined => rulesValidation.valid

(* The part of C30 the code keeps: length, order and shift of the rules,   *)
(* and the acceptance of every preset without a bitfield conversion.       *)
PresetsApplied ==
    /\ pc \in {"applied", "validated"} /\ Preset # Undefined =>
          /\ Len(rules) = Len(Preset.conversions)
          /\ \A i \in 1..Len(rules) :
                /\ rules[i].name = Preset.conversions[i].name
                /\ rules[i].dataType = Preset.conversions[i].dataType
                /\ rules[i].startRegister =
                      I(Small(Preset.conversions[i].startRegister)
                        + Small(parameters.startOffset))
    /\ pc = "validated" /\ Preset # Undefined =>
          rulesValidation.valid =
             (\A i \in 1..Len(rules) : rules[i].dataType # Str("bitfield"))

====
